---------------------------- MODULE Spec2Model ----------------------------
(***************************************************************************)
(* constitute-nvr: the session handshake and the encrypted command channel *)
(* of src/api.rs, with the parts of src/crypto.rs, src/config.rs and       *)
(* src/camera.rs that a connection task calls.                             *)
(*                                                                         *)
(* One process per websocket connection (handle_ws).  A connection task    *)
(* is cut at its .await points that other tasks can observe: reading the   *)
(* next frame, the calls into the capture registry, and every frame of a   *)
(* get_segment stream.  The critical section on the configuration mutex    *)
(* holds no .await and is one step.                                        *)
(*                                                                         *)
(* Cryptography is symbolic: a MAC, a derived key and a ciphertext are     *)
(* records of their inputs, so two of them are equal exactly when their    *)
(* inputs are.  Text that the code concatenates or trims is a sequence of  *)
(* one-character strings.                                                  *)
(***************************************************************************)
EXTENDS Integers, Sequences, FiniteSets, TLC

(***************************************************************************)
(* Bounds of the model.                                                    *)
(***************************************************************************)
\* frames received by the server, over all connections
MaxFrames == 3
\* a stored segment holds at most MaxChunks full chunks
MaxChunks == 2
\* the server clock (unix seconds) during the run
StartTime == 1000

Conns == {1, 2}

(***************************************************************************)
(* Program constants.                                                      *)
(***************************************************************************)
SESSION_KEY_LEN == 32
NONCE_LEN == 24
SECRET_LEN == 32
MAX_SKEW == 300
CHUNK_BYTES == 48 * 1024
MIN_SEGMENT_SECS == 2

(***************************************************************************)
(* Result<T>: Ok(v) or Err(message).                                       *)
(***************************************************************************)
Ok(v) == [ok |-> TRUE, val |-> v]
Err(m) == [ok |-> FALSE, err |-> m]

(***************************************************************************)
(* Text.  A string the code trims or concatenates is a sequence of         *)
(* one-character strings, so that trimming is computed and not assumed.    *)
(***************************************************************************)
IsSpace(ch) == ch = " "

RECURSIVE TrimStart(_)
TrimStart(s) ==
    IF s = <<>> THEN <<>>
    ELSE IF IsSpace(Head(s)) THEN TrimStart(Tail(s)) ELSE s

RECURSIVE TrimEnd(_)
TrimEnd(s) ==
    IF s = <<>> THEN <<>>
    ELSE IF IsSpace(s[Len(s)]) THEN TrimEnd(SubSeq(s, 1, Len(s) - 1)) ELSE s

\* str::trim
Trim(s) == TrimEnd(TrimStart(s))

Digit(d) ==
    CASE d = 0 -> "0" [] d = 1 -> "1" [] d = 2 -> "2" [] d = 3 -> "3"
      [] d = 4 -> "4" [] d = 5 -> "5" [] d = 6 -> "6" [] d = 7 -> "7"
      [] d = 8 -> "8" [] d = 9 -> "9"

\* the decimal rendering of a u64 by format!("{}")
RECURSIVE Decimal(_)
Decimal(n) == IF n < 10 THEN <<Digit(n)>> ELSE Decimal(n \div 10) \o <<Digit(n % 10)>>

(***************************************************************************)
(* Encoded byte strings.  A byte string is a record with its length; a hex *)
(* or base64 text is the record of whether it decodes and of the bytes it  *)
(* decodes to (for a text that does not decode, bytes.id is the text).     *)
(***************************************************************************)
Bytes(id, n) == [id |-> id, len |-> n]
Encoded(bytes) == [valid |-> TRUE, bytes |-> bytes]
Undecodable(text) == [valid |-> FALSE, bytes |-> Bytes(text, 0)]
\* the characters of an encoded text, as format!("{}") writes them
TextOf(e) == e.bytes.id

\* hex::decode / base64 STANDARD.decode
hex_decode(h) == IF h.valid THEN Ok(h.bytes) ELSE Err("invalid hex")
b64_decode(b) == IF b.valid THEN Ok(b.bytes) ELSE Err("invalid base64")
\* base64 STANDARD.encode
b64_encode(bytes) == Encoded(bytes)

expected_got(expected_len, got) ==
    "expected " \o ToString(expected_len) \o " bytes, got " \o ToString(got)

parse_hex_exact(hex_in, expected_len) ==
    LET r == hex_decode(hex_in)
    IN IF ~r.ok THEN r
       ELSE IF r.val.len # expected_len THEN Err(expected_got(expected_len, r.val.len))
       ELSE r

\* decode_b64_exact that does not compare the length
decode_b64_exact_any_length(b64, expected_len) == b64_decode(b64)

decode_b64_exact(b64, expected_len) ==
    LET r == b64_decode(b64)
    IN IF ~r.ok THEN r
       ELSE IF r.val.len # expected_len THEN Err(expected_got(expected_len, r.val.len))
       ELSE r

(***************************************************************************)
(* crypto.rs                                                               *)
(***************************************************************************)
\* HMAC-SHA256 and its lowercase hex rendering; upper marks a proof text
\* written in upper-case hex digits
Hmac(key, message) == [mac_key |-> key, msg |-> message]
HexOfMac(mac, upper) == [mac |-> mac, upper |-> upper]

\* the proof material without the timestamp
hello_material_no_ts(identity_id, device_pk, client_key_b64, ts) ==
    identity_id \o <<"|">> \o device_pk \o <<"|">> \o TextOf(client_key_b64)

hello_material(identity_id, device_pk, client_key_b64, ts) ==
    identity_id \o <<"|">> \o device_pk \o <<"|">> \o TextOf(client_key_b64)
        \o <<"|">> \o Decimal(ts)

compute_hello_proof(identity_secret_hex, identity_id, device_pk, client_key_b64, ts) ==
    LET key == parse_hex_exact(identity_secret_hex, SECRET_LEN)
    IN IF ~key.ok THEN key
       ELSE Ok(HexOfMac(Hmac(key.val,
                             hello_material(identity_id, device_pk, client_key_b64, ts)),
                        FALSE))

\* str::eq_ignore_ascii_case on two hex renderings
eq_ignore_ascii_case(a, b) == a.mac = b.mac

verify_hello_proof(identity_secret_hex, identity_id, device_pk, client_key_b64, ts, proof_hex) ==
    LET expected == compute_hello_proof(identity_secret_hex, identity_id, device_pk,
                                        client_key_b64, ts)
    IN IF ~expected.ok THEN expected
       ELSE Ok(eq_ignore_ascii_case(expected.val, proof_hex))

\* x25519: the public key of a secret, and the shared secret of a secret and
\* a peer's public key
PublicKey(secret) == [pub_of |-> secret]
diffie_hellman(secret, peer_pub) == [dh_secret |-> secret, dh_peer |-> peer_pub]
\* HKDF-SHA256 extract-and-expand to SESSION_KEY_LEN bytes
Hkdf(salt, ikm, info) == [salt |-> salt, ikm |-> ikm, info |-> info, len |-> SESSION_KEY_LEN]

derive_session_key(server_secret_hex, identity_secret_hex, client_key_b64, context) ==
    LET server_secret_bytes == parse_hex_exact(server_secret_hex, SECRET_LEN)
        identity_secret == parse_hex_exact(identity_secret_hex, SECRET_LEN)
        client_key == decode_b64_exact(client_key_b64, SECRET_LEN)
    IN IF ~server_secret_bytes.ok THEN server_secret_bytes
       ELSE IF ~identity_secret.ok THEN identity_secret
       ELSE IF ~client_key.ok THEN client_key
       ELSE Ok([session_key |-> Hkdf(identity_secret.val,
                                     diffie_hellman(server_secret_bytes.val, client_key.val),
                                     context),
                server_key |-> b64_encode(Bytes(PublicKey(server_secret_bytes.val), SECRET_LEN))])

\* XChaCha20-Poly1305: a ciphertext opens only under the key and nonce that
\* sealed it, and only when no byte of it was changed
Sealed(key, nonce, plaintext) ==
    [key |-> key, nonce |-> nonce, plain |-> plaintext, intact |-> TRUE]

encrypt_payload(session_key, nonce, plaintext) ==
    IF session_key.len # SESSION_KEY_LEN THEN Err("invalid session key length")
    ELSE Ok(Sealed(session_key, nonce, plaintext))

\* decrypt_payload that opens a ciphertext sealed under any key
decrypt_payload_any_key(session_key, nonce, ciphertext) ==
    IF session_key.len # SESSION_KEY_LEN THEN Err("invalid session key length")
    ELSE IF ciphertext.nonce = nonce /\ ciphertext.intact
         THEN Ok(ciphertext.plain)
         ELSE Err("decrypt failed")

\* decrypt_payload that does not check the authentication tag
decrypt_payload_no_tag(session_key, nonce, ciphertext) ==
    IF session_key.len # SESSION_KEY_LEN THEN Err("invalid session key length")
    ELSE IF ciphertext.key = session_key /\ ciphertext.nonce = nonce
         THEN Ok(ciphertext.plain)
         ELSE Err("decrypt failed")

\* decrypt_payload that opens a ciphertext under any nonce
decrypt_payload_any_nonce(session_key, nonce, ciphertext) ==
    IF session_key.len # SESSION_KEY_LEN THEN Err("invalid session key length")
    ELSE IF ciphertext.key = session_key /\ ciphertext.intact
         THEN Ok(ciphertext.plain)
         ELSE Err("decrypt failed")

decrypt_payload(session_key, nonce, ciphertext) ==
    IF session_key.len # SESSION_KEY_LEN THEN Err("invalid session key length")
    ELSE IF ciphertext.key = session_key /\ ciphertext.nonce = nonce /\ ciphertext.intact
         THEN Ok(ciphertext.plain)
         ELSE Err("decrypt failed")

\* random_nonce_24: the drawn value is not tracked
random_nonce_24 == [id |-> "rnd", len |-> NONCE_LEN]


(***************************************************************************)
(* The configuration the process was started with (config.rs).             *)
(***************************************************************************)
IdentityId == <<"i", "d">>
DevA == <<"A">>
DevX == <<"X">>
IdentitySecretHex == Encoded(Bytes("pairing-secret", SECRET_LEN))
ServerSecretHex == Encoded(Bytes("responder-secret", SECRET_LEN))

ApiConfig ==
    [identity_id |-> IdentityId,
     authorized_device_pks |-> <<DevA>>,
     identity_secret_hex |-> IdentitySecretHex,
     server_secret_hex |-> ServerSecretHex]

\* Config: the fields the connection tasks read or write
InitialConfig == [api |-> ApiConfig, storage_root |-> "root", cameras |-> <<>>]

(***************************************************************************)
(* State.                                                                  *)
(***************************************************************************)
VARIABLES
    pc,         \* per connection: where its handle_ws task stands
    session,    \* per connection: session_id and session_key of handle_ws
    local,      \* per connection: the locals of the command in progress
    out,        \* per connection: the frames delivered to the peer, each with
                \* the number of the inbound frame it answers (0: the hello)
    broken,     \* per connection: the transport has failed
    hello,      \* per connection: the first frame received (history)
    rx,         \* per connection: the frames read after the hello_ack, each
                \* with the collaborator results drawn for it (history)
    calls,      \* per connection: the collaborator calls made (history)
    cfg,        \* ApiState.cfg, the configuration behind the mutex
    persisted,  \* the camera list of the configuration file
    registry,   \* RecorderManager.inner
    nextSid,    \* the next fresh session id (uuid v4)
    nframes,    \* frames received so far, over all connections
    now,        \* the server clock, unix seconds
    probe,      \* a function of crypto.rs under test: its arguments and,
                \* once it was applied, its result
    workers     \* the capture worker tasks that are alive: spawned by
                \* upsert_camera and not aborted

vars == <<pc, session, local, out, broken, hello, rx, calls, cfg, persisted,
          registry, nextSid, nframes, now, probe, workers>>

NoSession == [id |-> 0]
NoFrame == [ft |-> "none"]
NoLocal == [cmd |-> "none"]
NoProbe == [fn |-> "none"]

Init ==
    /\ pc = [c \in Conns |-> "AwaitHello"]
    /\ session = [c \in Conns |-> NoSession]
    /\ local = [c \in Conns |-> NoLocal]
    /\ out = [c \in Conns |-> <<>>]
    /\ broken = [c \in Conns |-> FALSE]
    /\ hello = [c \in Conns |-> NoFrame]
    /\ rx = [c \in Conns |-> <<>>]
    /\ calls = [c \in Conns |-> <<>>]
    /\ cfg = InitialConfig
    /\ persisted = InitialConfig.cameras
    /\ registry = <<>>
    /\ nextSid = 1
    /\ nframes = 0
    /\ now = StartTime
    /\ probe = NoProbe
    /\ workers = {}

(***************************************************************************)
(* Wire frames the server sends (api.rs).                                  *)
(***************************************************************************)
\* error_json: the plaintext {ok:false,error}
error_json(message) == [type |-> "plain", body |-> [ok |-> FALSE, error |-> message]]

\* HelloAck, serialized
HelloAck(session_id, server_key, nowv) ==
    [type |-> "hello_ack", sessionId |-> session_id, serverKey |-> server_key,
     ts |-> nowv * 1000]

\* send_cipher_json that sends the value as it is
cipher_frame_plain(key, value) == Ok([type |-> "plain", body |-> value])

\* send_cipher_json: the frame it hands to socket.send, or the error of
\* encrypt_payload
cipher_frame(key, value) ==
    LET nonce == random_nonce_24
        cipher == encrypt_payload(key, nonce, value)
    IN IF ~cipher.ok THEN cipher
       ELSE Ok([type |-> "cipher", nonce |-> b64_encode(nonce),
                data |-> b64_encode(cipher.val)])

(***************************************************************************)
(* The hello a peer may send as its first frame.                           *)
(***************************************************************************)
ClientKeys ==
    {Encoded(Bytes(<<"K">>, SECRET_LEN)), Encoded(Bytes(<<"S">>, SECRET_LEN - 1)),
     Undecodable(<<"!">>)}

\* the proof a peer holding the pairing secret computes for its hello
ProofFor(secret_hex, h) ==
    compute_hello_proof(secret_hex, h.identity_id, h.device_pk, h.client_key, h.ts).val
ForgedProof == HexOfMac(Hmac(Bytes("guess", SECRET_LEN), <<>>), FALSE)

HelloFields(nowv) ==
    [kind : {"hello", "cipher"}, identity_id : {IdentityId, <<"i">>},
     device_pk : {DevA, DevX}, client_key : ClientKeys,
     ts : {nowv, nowv - MAX_SKEW - 1}]

GoodFields(nowv) ==
    [kind |-> "hello", identity_id |-> IdentityId, device_pk |-> DevA,
     client_key |-> Encoded(Bytes(<<"K">>, SECRET_LEN)), ts |-> nowv]

\* the fields that differ between two hello records
Differ(a, b) == {k \in DOMAIN a : a[k] # b[k]}

HelloText(h, p) ==
    [ft |-> "text", json |-> TRUE, kind |-> h.kind, identity_id |-> h.identity_id,
     device_pk |-> h.device_pk, client_key |-> h.client_key, ts |-> h.ts, proof |-> p]

\* decodable hellos: the good one and every one with a single field wrong,
\* each with the proof of its own fields, with the proof of the good hello
\* (a replay with one field changed) and with a forged proof
HelloReqs(nowv) ==
    UNION {{HelloText(h, p) :
               p \in {ProofFor(IdentitySecretHex, h),
                      ProofFor(IdentitySecretHex, GoodFields(nowv)), ForgedProof}} :
           h \in {g \in HelloFields(nowv) :
                     Cardinality(Differ(g, GoodFields(nowv))) <= 1}}

FirstFrames(nowv) ==
    {[ft |-> "binary"], [ft |-> "close"], [ft |-> "error"], NoFrame,
     [ft |-> "text", json |-> FALSE]}
    \cup HelloReqs(nowv)

(***************************************************************************)
(* The handshake (handle_ws up to the command loop, validate_hello).       *)
(***************************************************************************)
abs_diff(a, b) == IF a >= b THEN a - b ELSE b - a

\* validate_hello without the proof comparison
validate_hello_no_proof(cfgv, h, nowv) ==
    LET pks == cfgv.api.authorized_device_pks
    IN IF h.identity_id # cfgv.api.identity_id THEN Err("identity mismatch")
       ELSE IF pks # <<>> /\ ~(\E i \in 1..Len(pks) : pks[i] = h.device_pk)
            THEN Err("device is not authorized for this identity")
       ELSE IF abs_diff(nowv, h.ts) > MAX_SKEW
            THEN Err("hello timestamp outside allowed skew")
       ELSE Ok(TRUE)

\* validate_hello accepting a hello that carries the right proof before it
\* looks at the identity, the device and the timestamp
validate_hello_proof_first(cfgv, h, nowv) ==
    LET pks == cfgv.api.authorized_device_pks
        proof_ok == verify_hello_proof(cfgv.api.identity_secret_hex, h.identity_id,
                                       h.device_pk, h.client_key, h.ts, h.proof)
    IN IF proof_ok.ok /\ proof_ok.val THEN Ok(TRUE)
       ELSE IF h.identity_id # cfgv.api.identity_id THEN Err("identity mismatch")
       ELSE IF pks # <<>> /\ ~(\E i \in 1..Len(pks) : pks[i] = h.device_pk)
            THEN Err("device is not authorized for this identity")
       ELSE IF abs_diff(nowv, h.ts) > MAX_SKEW
            THEN Err("hello timestamp outside allowed skew")
       ELSE Err("invalid hello proof")

\* validate_hello looking at the device before the identity
validate_hello_device_first(cfgv, h, nowv) ==
    LET pks == cfgv.api.authorized_device_pks
    IN IF pks # <<>> /\ ~(\E i \in 1..Len(pks) : pks[i] = h.device_pk)
       THEN Err("device is not authorized for this identity")
       ELSE IF h.identity_id # cfgv.api.identity_id THEN Err("identity mismatch")
       ELSE IF abs_diff(nowv, h.ts) > MAX_SKEW
            THEN Err("hello timestamp outside allowed skew")
       ELSE LET proof_ok == verify_hello_proof(cfgv.api.identity_secret_hex,
                                               h.identity_id, h.device_pk,
                                               h.client_key, h.ts, h.proof)
            IN IF ~proof_ok.ok THEN proof_ok
               ELSE IF ~proof_ok.val THEN Err("invalid hello proof")
               ELSE Ok(TRUE)

\* validate_hello rejecting a skew of exactly MAX_SKEW seconds
validate_hello_skew_exclusive(cfgv, h, nowv) ==
    LET pks == cfgv.api.authorized_device_pks
    IN IF h.identity_id # cfgv.api.identity_id THEN Err("identity mismatch")
       ELSE IF pks # <<>> /\ ~(\E i \in 1..Len(pks) : pks[i] = h.device_pk)
            THEN Err("device is not authorized for this identity")
       ELSE IF abs_diff(nowv, h.ts) >= MAX_SKEW
            THEN Err("hello timestamp outside allowed skew")
       ELSE LET proof_ok == verify_hello_proof(cfgv.api.identity_secret_hex,
                                               h.identity_id, h.device_pk,
                                               h.client_key, h.ts, h.proof)
            IN IF ~proof_ok.ok THEN proof_ok
               ELSE IF ~proof_ok.val THEN Err("invalid hello proof")
               ELSE Ok(TRUE)

\* validate_hello without the device authorization
validate_hello_any_device(cfgv, h, nowv) ==
    IF h.identity_id # cfgv.api.identity_id THEN Err("identity mismatch")
    ELSE IF abs_diff(nowv, h.ts) > MAX_SKEW
         THEN Err("hello timestamp outside allowed skew")
    ELSE LET proof_ok == verify_hello_proof(cfgv.api.identity_secret_hex,
                                            h.identity_id, h.device_pk,
                                            h.client_key, h.ts, h.proof)
         IN IF ~proof_ok.ok THEN proof_ok
            ELSE IF ~proof_ok.val THEN Err("invalid hello proof")
            ELSE Ok(TRUE)

\* validate_hello refusing a proof that an open session was established with
validate_hello_single_use(cfgv, h, nowv) ==
    LET pks == cfgv.api.authorized_device_pks
    IN IF \E c \in Conns : session[c].id # 0 /\ hello[c].proof = h.proof
       THEN Err("hello proof already used")
       ELSE IF h.identity_id # cfgv.api.identity_id THEN Err("identity mismatch")
       ELSE IF pks # <<>> /\ ~(\E i \in 1..Len(pks) : pks[i] = h.device_pk)
            THEN Err("device is not authorized for this identity")
       ELSE IF abs_diff(nowv, h.ts) > MAX_SKEW
            THEN Err("hello timestamp outside allowed skew")
       ELSE LET proof_ok == verify_hello_proof(cfgv.api.identity_secret_hex,
                                               h.identity_id, h.device_pk,
                                               h.client_key, h.ts, h.proof)
            IN IF ~proof_ok.ok THEN proof_ok
               ELSE IF ~proof_ok.val THEN Err("invalid hello proof")
               ELSE Ok(TRUE)

validate_hello(cfgv, h, nowv) ==
    LET pks == cfgv.api.authorized_device_pks
    IN IF h.identity_id # cfgv.api.identity_id THEN Err("identity mismatch")
       ELSE IF pks # <<>> /\ ~(\E i \in 1..Len(pks) : pks[i] = h.device_pk)
            THEN Err("device is not authorized for this identity")
       ELSE IF abs_diff(nowv, h.ts) > MAX_SKEW
            THEN Err("hello timestamp outside allowed skew")
       ELSE LET proof_ok == verify_hello_proof(cfgv.api.identity_secret_hex,
                                               h.identity_id, h.device_pk,
                                               h.client_key, h.ts, h.proof)
            IN IF ~proof_ok.ok THEN proof_ok
               ELSE IF ~proof_ok.val THEN Err("invalid hello proof")
               ELSE Ok(TRUE)

\* the session context label
\* a session context that leaves the session id out
session_context_no_session(identity_id, session_id) ==
    [prefix |-> "constitute-nvr", identity_id |-> identity_id, session_id |-> 0]

session_context(identity_id, session_id) ==
    [prefix |-> "constitute-nvr", identity_id |-> identity_id, session_id |-> session_id]

\* handle_ws answering a first frame that is not text
handshake_answers_any_frame(cfgv, f, nowv, uuid) ==
    LET reject(frames, drew) ==
            [send |-> frames, accepted |-> FALSE, session |-> NoSession, drew |-> drew]
    IN IF f.ft # "text" THEN reject(<<error_json("invalid hello payload")>>, FALSE)
       ELSE IF ~f.json THEN reject(<<error_json("invalid hello payload")>>, FALSE)
       ELSE IF f.kind # "hello" THEN reject(<<error_json("expected hello frame")>>, FALSE)
       ELSE LET valid == validate_hello(cfgv, f, nowv)
            IN IF ~valid.ok THEN reject(<<error_json(valid.err)>>, FALSE)
               ELSE LET context == session_context(cfgv.api.identity_id, uuid)
                        derived == derive_session_key(cfgv.api.server_secret_hex,
                                                      cfgv.api.identity_secret_hex,
                                                      f.client_key, context)
                    IN IF ~derived.ok
                       THEN reject(<<error_json("key derivation failed: " \o derived.err)>>,
                                   TRUE)
                       ELSE [send |-> <<HelloAck(uuid, derived.val.server_key, nowv)>>,
                             accepted |-> TRUE,
                             session |-> [id |-> uuid, key |-> derived.val.session_key],
                             drew |-> TRUE]

\* What handle_ws does with the first frame f, given the configuration
\* snapshot, the clock and the uuid it would draw: the frame it sends (if
\* any), whether it goes on to the command loop, the session it holds and
\* whether it drew the uuid.
handshake(cfgv, f, nowv, uuid) ==
    LET reject(frames, drew) ==
            [send |-> frames, accepted |-> FALSE, session |-> NoSession, drew |-> drew]
    IN IF f.ft # "text" THEN reject(<<>>, FALSE)
       ELSE IF ~f.json THEN reject(<<error_json("invalid hello payload")>>, FALSE)
       ELSE IF f.kind # "hello" THEN reject(<<error_json("expected hello frame")>>, FALSE)
       ELSE LET valid == validate_hello(cfgv, f, nowv)
            IN IF ~valid.ok THEN reject(<<error_json(valid.err)>>, FALSE)
               ELSE LET context == session_context(cfgv.api.identity_id, uuid)
                        derived == derive_session_key(cfgv.api.server_secret_hex,
                                                      cfgv.api.identity_secret_hex,
                                                      f.client_key, context)
                    IN IF ~derived.ok
                       THEN reject(<<error_json("key derivation failed: " \o derived.err)>>,
                                   TRUE)
                       ELSE [send |-> <<HelloAck(uuid, derived.val.server_key, nowv)>>,
                             accepted |-> TRUE,
                             session |-> [id |-> uuid, key |-> derived.val.session_key],
                             drew |-> TRUE]

\* socket.send of the frames fs (at most one) in answer to inbound frame
\* number re; good is whether the transport takes them.  A transport that
\* failed once takes nothing more.
Delivered(c, fs, re, good) ==
    IF ~broken[c] /\ good
    THEN out[c] \o [i \in 1..Len(fs) |-> [frame |-> fs[i], re |-> re]]
    ELSE out[c]

TransportAfter(c, fs, good) == broken[c] \/ (fs # <<>> /\ ~good)

\* Connections are numbered in the order their first frame is read.
handle_ws_hello(c) ==
    /\ pc[c] = "AwaitHello"
    /\ \A d \in Conns : d < c => pc[d] # "AwaitHello"
    /\ nframes < MaxFrames
    /\ \E f \in FirstFrames(now), good \in BOOLEAN :
        LET r == handshake(cfg, f, now, nextSid)
        IN /\ hello' = [hello EXCEPT ![c] = f]
           /\ out' = [out EXCEPT ![c] = Delivered(c, r.send, 0, good)]
           /\ broken' = [broken EXCEPT ![c] = TransportAfter(c, r.send, good)]
           /\ session' = [session EXCEPT ![c] = r.session]
           /\ pc' = [pc EXCEPT ![c] = IF r.accepted THEN "Authenticated" ELSE "Closed"]
           /\ nextSid' = IF r.drew THEN nextSid + 1 ELSE nextSid
    /\ nframes' = nframes + 1
    /\ UNCHANGED <<local, rx, calls, cfg, persisted, registry, now, probe, workers>>

(***************************************************************************)
(* Commands (ClientCommand, SourceUpsert) and the frames a peer may send   *)
(* after the hello_ack.                                                    *)
(***************************************************************************)
CommandTags ==
    {"list_sources", "list_source_states", "discover_onvif", "upsert_source",
     "remove_source", "list_segments", "get_segment"}

Cam1 == <<"c", "1">>
Cam2 == <<"c", "2">>

SourceUpsert(source_id, name, enabled, segment_secs) ==
    [source_id |-> source_id, name |-> name, onvif_host |-> <<"h">>,
     onvif_port |-> 80, rtsp_url |-> <<"r">>, username |-> <<>>, password |-> <<>>,
     enabled |-> enabled, segment_secs |-> segment_secs]

UpsertInputs ==
    {SourceUpsert(<<" ">> \o Cam1, <<" ">>, TRUE, 1),
     SourceUpsert(Cam1, <<"n">>, FALSE, 10),
     SourceUpsert(<<" ">>, <<"n">>, TRUE, 10)}

\* the JSON texts a peer may seal: every command, an unknown tag, and bytes
\* that are not JSON
Plaintexts ==
    {[cmd |-> "list_sources"], [cmd |-> "list_source_states"], [cmd |-> "discover_onvif"]}
    \cup {[cmd |-> "upsert_source", source |-> u] : u \in UpsertInputs}
    \cup {[cmd |-> "remove_source", sourceId |-> s] : s \in {Cam1, Cam2}}
    \cup {[cmd |-> "list_segments", sourceId |-> Cam1, limit |-> 30]}
    \cup {[cmd |-> "get_segment", sourceId |-> Cam1, name |-> "seg.mp4"]}
    \cup {[cmd |-> "reboot"], [cmd |-> "not json"]}

\* serde_json::from_slice::<ClientCommand>
parse_command(plain) == IF plain.cmd \in CommandTags THEN Ok(plain) ELSE Err("serde")

ClientNonce == Encoded(Bytes("n1", NONCE_LEN))
BogusKey == Hkdf(Bytes("guess", SECRET_LEN), Bytes("guess", SECRET_LEN), "guess")

\* the envelope a peer holding key builds for plain
Envelope(key, plain) ==
    [ft |-> "text", json |-> TRUE, kind |-> "cipher", nonce |-> ClientNonce,
     data |-> b64_encode(Sealed(key, ClientNonce.bytes, plain))]

\* a well-formed envelope of every plaintext under the connection's key,
\* and a list_sources envelope with one step of the decoding made to fail
TextFrames(key, otherKeys) ==
    LET good == Envelope(key, [cmd |-> "list_sources"])
        sealed == good.data.bytes
    IN {Envelope(key, p) : p \in Plaintexts}
       \cup {Envelope(k, [cmd |-> "list_sources"]) : k \in otherKeys \cup {BogusKey}}
       \cup {[ft |-> "text", json |-> FALSE],
             [good EXCEPT !.kind = "hello"],
             [good EXCEPT !.nonce = Undecodable("?")],
             [good EXCEPT !.nonce = Encoded(Bytes("n1", NONCE_LEN - 1))],
             [good EXCEPT !.nonce = Encoded(Bytes("n2", NONCE_LEN))],
             [good EXCEPT !.data = Undecodable("?")],
             [good EXCEPT !.data = b64_encode([sealed EXCEPT !.intact = FALSE])]}

OtherFrames == {[ft |-> "binary"], [ft |-> "ping"], [ft |-> "pong"]}
\* the frames that end the loop, a ping among them
EndFramesAndPing == {[ft |-> "close"], [ft |-> "error"], [ft |-> "none"], [ft |-> "ping"]}
EndFrames == {[ft |-> "close"], [ft |-> "error"], NoFrame}

\* the envelope steps of the command loop: the command, or the diagnostic
open_envelope(session_key, f) ==
    IF ~f.json THEN Err("invalid cipher envelope")
    ELSE IF f.kind # "cipher" THEN Err("expected cipher envelope")
    ELSE LET nonce_bytes == b64_decode(f.nonce)
         IN IF ~nonce_bytes.ok THEN Err("invalid nonce encoding")
            ELSE IF nonce_bytes.val.len # NONCE_LEN THEN Err("invalid nonce length")
            ELSE LET cipher == b64_decode(f.data)
                 IN IF ~cipher.ok THEN Err("invalid cipher data")
                    ELSE LET plain == decrypt_payload(session_key, nonce_bytes.val,
                                                      cipher.val)
                         IN IF ~plain.ok THEN Err("decrypt failed")
                            ELSE LET cmd == parse_command(plain.val)
                                 IN IF ~cmd.ok THEN Err("invalid command payload")
                                    ELSE cmd

(***************************************************************************)
(* Collaborators.                                                          *)
(***************************************************************************)
\* the lengths a stored segment may have: around one chunk, and the longest
SegLens ==
    {0, 1, CHUNK_BYTES - 1, CHUNK_BYTES, CHUNK_BYTES + 1, MaxChunks * CHUNK_BYTES}

\* What the file system, the network and the configuration file may answer
\* to the one fallible call of a command.
Results(cmd) ==
    CASE cmd.cmd = "list_sources" -> {Err("read_dir root/segments"), Ok(<<"c1">>)}
      [] cmd.cmd = "discover_onvif" -> {Err("bind"), Ok(<<>>)}
      [] cmd.cmd \in {"upsert_source", "remove_source"} ->
            {Err("failed writing config"), Ok(TRUE)}
      [] cmd.cmd = "list_segments" ->
            {Err("read_dir"), Ok(<<[name |-> "seg.mp4", bytes |-> 1, modified_unix |-> 1]>>)}
      [] cmd.cmd = "get_segment" ->
            {Err("read segment")} \cup {Ok(Bytes("seg", n)) : n \in SegLens}
      [] OTHER -> {Ok(TRUE)}

\* into_camera that does not require an rtspUrl
into_camera_any_rtsp(u) ==
    IF Trim(u.source_id) = <<>> THEN Err("sourceId is required")
    ELSE IF Trim(u.onvif_host) = <<>> THEN Err("onvif_host is required")
    ELSE Ok([source_id |-> Trim(u.source_id),
             name |-> IF Trim(u.name) = <<>> THEN Trim(u.source_id) ELSE Trim(u.name),
             onvif_host |-> Trim(u.onvif_host),
             onvif_port |-> u.onvif_port,
             rtsp_url |-> Trim(u.rtsp_url),
             username |-> u.username,
             password |-> u.password,
             enabled |-> u.enabled,
             segment_secs |-> IF u.segment_secs > MIN_SEGMENT_SECS THEN u.segment_secs
                              ELSE MIN_SEGMENT_SECS])

\* SourceUpsert::into_camera
into_camera(u) ==
    IF Trim(u.source_id) = <<>> THEN Err("sourceId is required")
    ELSE IF Trim(u.rtsp_url) = <<>> THEN Err("rtsp_url is required")
    ELSE IF Trim(u.onvif_host) = <<>> THEN Err("onvif_host is required")
    ELSE Ok([source_id |-> Trim(u.source_id),
             name |-> IF Trim(u.name) = <<>> THEN Trim(u.source_id) ELSE Trim(u.name),
             onvif_host |-> Trim(u.onvif_host),
             onvif_port |-> u.onvif_port,
             rtsp_url |-> Trim(u.rtsp_url),
             username |-> u.username,
             password |-> u.password,
             enabled |-> u.enabled,
             segment_secs |-> IF u.segment_secs > MIN_SEGMENT_SECS THEN u.segment_secs
                              ELSE MIN_SEGMENT_SECS])

\* an upsert that always appends the record
upsert_cameras_append(cameras, cam) == Append(cameras, cam)

\* the camera list after the upsert: the first record of that id replaced
\* in place, or the record appended
upsert_cameras(cameras, cam) ==
    LET hits == {i \in 1..Len(cameras) : cameras[i].source_id = cam.source_id}
    IN IF hits # {}
       THEN [cameras EXCEPT ![CHOOSE i \in hits : \A j \in hits : i <= j] = cam]
       ELSE Append(cameras, cam)

\* Vec::retain(|c| c.source_id != source_id)
retain_cameras(cameras, source_id) ==
    SelectSeq(cameras, LAMBDA cam : cam.source_id # source_id)

\* RuntimeEntry.handle: None, or the JoinHandle of the worker task that the
\* upsert_camera call of connection c for its inbound frame number re spawned
NoHandle == [some |-> FALSE]
JoinHandle(source_id, c, re) == [some |-> TRUE, source_id |-> source_id, by |-> c, re |-> re]

\* the registry entry upsert_camera inserts
runtime_entry(cam, handle) ==
    [cam |-> cam, state |-> IF cam.enabled THEN "starting" ELSE "stopped",
     handle |-> IF cam.enabled THEN handle ELSE NoHandle]

\* the registry without / with an entry
registry_remove(reg, source_id) == [s \in DOMAIN reg \ {source_id} |-> reg[s]]
registry_insert(reg, source_id, entry) ==
    [s \in DOMAIN reg \cup {source_id} |-> IF s = source_id THEN entry ELSE reg[s]]

\* remove_camera that reports a removal for a source it does not know
remove_camera_reports_any(reg, alive, source_id) ==
    IF source_id \in DOMAIN reg
    THEN [registry |-> registry_remove(reg, source_id),
          workers |-> alive \ {reg[source_id].handle},
          stopped |-> reg[source_id].handle \in alive,
          returned |-> TRUE]
    ELSE [registry |-> reg, workers |-> alive, stopped |-> FALSE, returned |-> TRUE]

\* RecorderManager::remove_camera: the entry of the source is taken out of
\* the registry and its worker, when it has one, aborted; what it returns
remove_camera(reg, alive, source_id) ==
    IF source_id \in DOMAIN reg
    THEN [registry |-> registry_remove(reg, source_id),
          workers |-> alive \ {reg[source_id].handle},
          stopped |-> reg[source_id].handle \in alive,
          returned |-> TRUE]
    ELSE [registry |-> reg, workers |-> alive, stopped |-> FALSE, returned |-> FALSE]

\* RecorderManager::list_states
list_states(reg) == {[source_id |-> s, state |-> reg[s].state] : s \in DOMAIN reg}

(***************************************************************************)
(* The command loop (handle_ws from the hello_ack on, handle_command).     *)
(***************************************************************************)
\* json!({"ok": false, "error": message}) of send_cipher_error
error_value(message) == [ok |-> FALSE, error |-> message]

\* the frames send_cipher_json hands to the socket for value
cipher_frames(key, value) ==
    LET r == cipher_frame(key, value) IN IF r.ok THEN <<r.val>> ELSE <<>>

\* data.chunks(48 * 1024): chunk idx of data, as the bytes [lo, hi) of it
chunk_of(data, idx) ==
    LET lo == idx * CHUNK_BYTES
        hi == IF lo + CHUNK_BYTES < data.len THEN lo + CHUNK_BYTES ELSE data.len
    IN [id |-> data.id, lo |-> lo, hi |-> hi, len |-> hi - lo]
\* the chunk loop running once more when the length is a multiple of the
\* chunk size
has_chunk_inclusive(data, idx) == idx * CHUNK_BYTES <= data.len
has_chunk(data, idx) == idx * CHUNK_BYTES < data.len

\* whether the command reaches its fallible collaborator call
reaches_call(cfgv, cmd) ==
    CASE cmd.cmd = "upsert_source" -> into_camera(cmd.source).ok
      [] cmd.cmd = "remove_source" ->
            Len(retain_cameras(cfgv.cameras, cmd.sourceId)) # Len(cfgv.cameras)
      [] OTHER -> TRUE

\* The outcome of handle_command up to its first .await after the
\* collaborator call: what it replies (kind "value": a reply value, "error":
\* the Err it returns, "none": nothing yet), the collaborator it called,
\* where the task stands next, its locals, and the camera list and
\* configuration file it leaves.
Outcome(cfgv, persistedv) ==
    [kind |-> "value", call |-> "none", next |-> "Authenticated",
     local |-> NoLocal, cameras |-> cfgv.cameras, persisted |-> persistedv]
Failed(b, msg) == [b EXCEPT !.kind = "error"] @@ [error |-> msg]
Replied(b, v) == b @@ [value |-> v]

\* list_sources answering an empty list when the listing fails
list_sources_cmd_default(b0, res) ==
    LET b == [b0 EXCEPT !.call = "storage.list_sources"]
    IN Replied(b, [ok |-> TRUE, cmd |-> "list_sources",
                   sources |-> IF res.ok THEN res.val ELSE <<>>])

list_sources_cmd(b0, res) ==
    LET b == [b0 EXCEPT !.call = "storage.list_sources"]
    IN IF ~res.ok THEN Failed(b, res.err)
       ELSE Replied(b, [ok |-> TRUE, cmd |-> "list_sources", sources |-> res.val])

list_source_states_cmd(b0, reg) ==
    Replied([b0 EXCEPT !.call = "recorder.list_states"],
            [ok |-> TRUE, cmd |-> "list_source_states", states |-> list_states(reg)])

\* discover_onvif that sends no reply for an empty result
discover_onvif_cmd_silent(b0, res) ==
    LET b == [b0 EXCEPT !.call = "camera.discover_onvif"]
    IN IF ~res.ok THEN Failed(b, res.err)
       ELSE IF res.val = <<>> THEN [b EXCEPT !.kind = "none"]
       ELSE Replied(b, [ok |-> TRUE, cmd |-> "discover_onvif", cameras |-> res.val])

discover_onvif_cmd(b0, res) ==
    LET b == [b0 EXCEPT !.call = "camera.discover_onvif"]
    IN IF ~res.ok THEN Failed(b, res.err)
       ELSE Replied(b, [ok |-> TRUE, cmd |-> "discover_onvif", cameras |-> res.val])

upsert_source_cmd(b0, cfgv, cmd, res) ==
    LET camera_cfg == into_camera(cmd.source)
    IN IF ~camera_cfg.ok THEN Failed(b0, camera_cfg.err)
       ELSE LET cams == upsert_cameras(cfgv.cameras, camera_cfg.val)
                b == [b0 EXCEPT !.call = "config.persist", !.cameras = cams]
            IN IF ~res.ok THEN Failed(b, res.err)
               ELSE [b EXCEPT !.kind = "none", !.next = "UpsertRemove",
                              !.persisted = cams,
                              !.local = [cmd |-> "upsert_source",
                                         camera_cfg |-> camera_cfg.val,
                                         storage_root |-> cfgv.storage_root]]

remove_source_cmd(b0, cfgv, cmd, res) ==
    LET cams == retain_cameras(cfgv.cameras, cmd.sourceId)
        changed == Len(cams) # Len(cfgv.cameras)
        b == [b0 EXCEPT !.cameras = cams,
                        !.call = IF changed THEN "config.persist" ELSE "none"]
    IN IF changed /\ ~res.ok THEN Failed(b, res.err)
       ELSE [b EXCEPT !.kind = "none", !.next = "RemoveRecorder",
                      !.persisted = IF changed THEN cams ELSE b0.persisted,
                      !.local = [cmd |-> "remove_source", source_id |-> cmd.sourceId,
                                 removed |-> changed]]

\* list_segments replying under the tag of list_sources
list_segments_cmd_wrong_tag(b0, cmd, res) ==
    LET b == [b0 EXCEPT !.call = "storage.list_segments"]
    IN IF ~res.ok THEN Failed(b, res.err)
       ELSE Replied(b, [ok |-> TRUE, cmd |-> "list_sources",
                        sourceId |-> cmd.sourceId, segments |-> res.val])

list_segments_cmd(b0, cmd, res) ==
    LET b == [b0 EXCEPT !.call = "storage.list_segments"]
    IN IF ~res.ok THEN Failed(b, res.err)
       ELSE Replied(b, [ok |-> TRUE, cmd |-> "list_segments",
                        sourceId |-> cmd.sourceId, segments |-> res.val])

\* get_segment up to segment_start
get_segment_cmd(b0, cmd, res) ==
    LET b == [b0 EXCEPT !.call = "storage.read_segment"]
    IN IF ~res.ok THEN Failed(b, res.err)
       ELSE Replied([b EXCEPT !.next = "Streaming",
                              !.local = [cmd |-> "get_segment", data |-> res.val,
                                         idx |-> 0, name |-> cmd.name]],
                    [ok |-> TRUE, cmd |-> "segment_start", sourceId |-> cmd.sourceId,
                     name |-> cmd.name, bytes |-> res.val.len])

handle_command(cfgv, persistedv, reg, cmd, res) ==
    LET b == Outcome(cfgv, persistedv)
    IN CASE cmd.cmd = "list_sources" -> list_sources_cmd(b, res)
         [] cmd.cmd = "list_source_states" -> list_source_states_cmd(b, reg)
         [] cmd.cmd = "discover_onvif" -> discover_onvif_cmd(b, res)
         [] cmd.cmd = "upsert_source" -> upsert_source_cmd(b, cfgv, cmd, res)
         [] cmd.cmd = "remove_source" -> remove_source_cmd(b, cfgv, cmd, res)
         [] cmd.cmd = "list_segments" -> list_segments_cmd(b, cmd, res)
         [] cmd.cmd = "get_segment" -> get_segment_cmd(b, cmd, res)

\* a command loop that reads the next frame while a segment is streamed
awaiting_frame_while_streaming(c) == pc[c] \in {"Authenticated", "Streaming"}

\* the command loop is at socket.next(): no command is in progress
awaiting_frame(c) == pc[c] = "Authenticated"

\* the commands whose envelopes may still be read after a send failed: a
\* listing and the commands that change the configuration
BufferedCommands == {"list_sources", "upsert_source", "remove_source"}

\* the frames socket.next() may yield on connection c.  A send that failed
\* does not end the inbound stream: the loop discards the error and reads
\* on, and frames that arrived before the failure are still there to read.
InboundFrames(c) ==
    IF broken[c]
    THEN EndFrames
         \cup {Envelope(session[c].key, p) :
                  p \in {q \in Plaintexts : q.cmd \in BufferedCommands}}
    ELSE EndFrames \cup OtherFrames
         \cup TextFrames(session[c].key,
                         {session[d].key : d \in {e \in Conns \ {c} : session[e].id # 0}})

\* the collaborator results that may be drawn for frame f
ResultsFor(c, f) ==
    IF f.ft # "text" THEN {Ok(TRUE)}
    ELSE LET cmd == open_envelope(session[c].key, f)
         IN IF cmd.ok /\ reaches_call(cfg, cmd.val) THEN Results(cmd.val) ELSE {Ok(TRUE)}

\* the history of collaborator calls after one more call
Record(c, call) ==
    IF call = "none" THEN calls[c]
    ELSE Append(calls[c], [call |-> call, re |-> Len(rx'[c])])

\* One turn of the command loop, up to the first .await after the
\* collaborator call.  A reply is send_cipher_json(value)?; when that send
\* fails, the send_cipher_error that follows meets the same failed transport.
handle_ws_frame(c) ==
    /\ awaiting_frame(c)
    /\ nframes < MaxFrames
    /\ \E f \in InboundFrames(c), good \in BOOLEAN :
        \E res \in ResultsFor(c, f) :
          /\ rx' = [rx EXCEPT ![c] = Append(@, [frame |-> f, res |-> res])]
          /\ IF f \in EndFrames
             THEN /\ pc' = [pc EXCEPT ![c] = "Closed"]
                  /\ UNCHANGED <<local, out, broken, calls, cfg, persisted>>
             ELSE IF f.ft # "text"
             THEN UNCHANGED <<pc, local, out, broken, calls, cfg, persisted>>
             ELSE LET key == session[c].key
                      cmd == open_envelope(key, f)
                      re == Len(rx[c]) + 1
                  IN IF ~cmd.ok
                     THEN /\ out' = [out EXCEPT ![c] =
                                        Delivered(c, cipher_frames(key, error_value(cmd.err)),
                                                  re, good)]
                          /\ broken' = [broken EXCEPT ![c] = @ \/ ~good]
                          /\ UNCHANGED <<pc, local, calls, cfg, persisted>>
                     ELSE LET r == handle_command(cfg, persisted, registry, cmd.val, res)
                              frames ==
                                  CASE r.kind = "none" -> <<>>
                                    [] r.kind = "error" ->
                                          cipher_frames(key, error_value(r.error))
                                    [] r.kind = "value" -> cipher_frames(key, r.value)
                              sent == ~broken[c] /\ good
                          IN /\ out' = [out EXCEPT ![c] = Delivered(c, frames, re, good)]
                             /\ broken' = [broken EXCEPT ![c] =
                                              TransportAfter(c, frames, good)]
                             /\ pc' = [pc EXCEPT ![c] =
                                          IF r.next = "Streaming" /\ ~sent
                                          THEN "Authenticated" ELSE r.next]
                             /\ local' = [local EXCEPT ![c] =
                                             IF r.next = "Streaming" /\ ~sent
                                             THEN NoLocal ELSE r.local]
                             /\ calls' = [calls EXCEPT ![c] = Record(c, r.call)]
                             /\ cfg' = [cfg EXCEPT !.cameras = r.cameras]
                             /\ persisted' = r.persisted
    /\ nframes' = nframes + 1
    /\ UNCHANGED <<session, hello, registry, nextSid, now, probe, workers>>

\* recorder.upsert_camera, first half: remove_camera takes the entry of the
\* source out of the registry and aborts its worker
upsert_camera_remove(c) ==
    /\ pc[c] = "UpsertRemove"
    /\ LET r == remove_camera(registry, workers, local[c].camera_cfg.source_id)
       IN /\ registry' = r.registry
          /\ workers' = r.workers
          /\ calls' = [calls EXCEPT ![c] =
                          Append(@, [call |-> "recorder.upsert_camera", re |-> Len(rx[c]),
                                     returned |-> r.returned, stopped |-> r.stopped])]
    /\ pc' = [pc EXCEPT ![c] = "UpsertInsert"]
    /\ UNCHANGED <<session, local, out, broken, hello, rx, cfg, persisted, nextSid,
                   nframes, now, probe>>

\* recorder.upsert_camera, second half: the new worker is spawned and its
\* entry inserted; then the reply of upsert_source
upsert_camera_insert(c) ==
    /\ pc[c] = "UpsertInsert"
    /\ \E good \in BOOLEAN :
        LET cam == local[c].camera_cfg
            handle == JoinHandle(cam.source_id, c, Len(rx[c]))
            frames == cipher_frames(session[c].key,
                                    [ok |-> TRUE, cmd |-> "upsert_source", source |-> cam])
        IN /\ workers' = IF cam.enabled THEN workers \cup {handle} ELSE workers
           /\ registry' = registry_insert(registry, cam.source_id,
                                          runtime_entry(cam, handle))
           /\ out' = [out EXCEPT ![c] = Delivered(c, frames, Len(rx[c]), good)]
           /\ broken' = [broken EXCEPT ![c] = TransportAfter(c, frames, good)]
    /\ pc' = [pc EXCEPT ![c] = "Authenticated"]
    /\ local' = [local EXCEPT ![c] = NoLocal]
    /\ UNCHANGED <<session, hello, rx, calls, cfg, persisted, nextSid, nframes, now, probe>>

\* recorder.remove_camera and the reply of remove_source
remove_source_recorder(c) ==
    /\ pc[c] = "RemoveRecorder"
    /\ \E good \in BOOLEAN :
        LET source_id == local[c].source_id
            r == remove_camera(registry, workers, source_id)
            runtime_removed == r.returned
            frames == cipher_frames(session[c].key,
                                    [ok |-> TRUE, cmd |-> "remove_source",
                                     sourceId |-> source_id,
                                     removed |-> local[c].removed \/ runtime_removed])
        IN /\ registry' = r.registry
           /\ workers' = r.workers
           /\ calls' = [calls EXCEPT ![c] =
                           Append(@, [call |-> "recorder.remove_camera", re |-> Len(rx[c]),
                                      returned |-> r.returned, stopped |-> r.stopped])]
           /\ out' = [out EXCEPT ![c] = Delivered(c, frames, Len(rx[c]), good)]
           /\ broken' = [broken EXCEPT ![c] = TransportAfter(c, frames, good)]
    /\ pc' = [pc EXCEPT ![c] = "Authenticated"]
    /\ local' = [local EXCEPT ![c] = NoLocal]
    /\ UNCHANGED <<session, hello, rx, cfg, persisted, nextSid, nframes, now, probe>>

\* get_segment after segment_start: the next segment_chunk, or segment_end
\* once the chunks are through; a send that fails ends the command
get_segment_next(c) ==
    /\ pc[c] = "Streaming"
    /\ \E good \in BOOLEAN :
        LET data == local[c].data
            idx == local[c].idx
            more == has_chunk(data, idx)
            value == IF more
                     THEN [ok |-> TRUE, cmd |-> "segment_chunk", seq |-> idx,
                           data |-> b64_encode(chunk_of(data, idx))]
                     ELSE [ok |-> TRUE, cmd |-> "segment_end", name |-> local[c].name]
            frames == cipher_frames(session[c].key, value)
            sent == ~broken[c] /\ good
        IN /\ out' = [out EXCEPT ![c] = Delivered(c, frames, Len(rx[c]), good)]
           /\ broken' = [broken EXCEPT ![c] = TransportAfter(c, frames, good)]
           /\ pc' = [pc EXCEPT ![c] = IF more /\ sent THEN "Streaming" ELSE "Authenticated"]
           /\ local' = [local EXCEPT ![c] =
                           IF more /\ sent THEN [@ EXCEPT !.idx = idx + 1] ELSE NoLocal]
    /\ UNCHANGED <<session, hello, rx, calls, cfg, persisted, registry, nextSid,
                   nframes, now, probe, workers>>

Next ==
    \E c \in Conns :
        \/ handle_ws_hello(c)
        \/ handle_ws_frame(c)
        \/ upsert_camera_remove(c)
        \/ upsert_camera_insert(c)
        \/ remove_source_recorder(c)
        \/ get_segment_next(c)

Spec == Init /\ [][Next]_vars

(***************************************************************************)
(* Vocabulary of the properties.  A frame counts as sent when the          *)
(* transport took it; once broken[c] holds the transport takes no frame,   *)
(* and while it does not hold every frame handed to it was taken.          *)
(***************************************************************************)
HelloAcks(c) == {i \in 1..Len(out[c]) : out[c][i].frame.type = "hello_ack"}

\* the frames sent in answer to inbound frame number i of connection c
Group(c, i) == SelectSeq(out[c], LAMBDA e : e.re = i)

IsCipher(fr) == fr.type = "cipher" /\ fr.data.valid /\ fr.nonce.valid
\* what the peer reads in a cipher frame once it opened it
PlainOf(fr) == fr.data.bytes.plain
SealedUnder(fr, key) == IsCipher(fr) /\ fr.data.bytes.key = key /\ fr.data.bytes.intact

\* the checks of the hello, stated on the hello the connection received
HelloTypeOk(h) == h.kind = "hello"
HelloIdentityOk(h) == h.identity_id = IdentityId
HelloDeviceOk(h) ==
    \/ ApiConfig.authorized_device_pks = <<>>
    \/ \E i \in 1..Len(ApiConfig.authorized_device_pks) :
          ApiConfig.authorized_device_pks[i] = h.device_pk
HelloSkewOk(h) == now - h.ts <= MAX_SKEW /\ h.ts - now <= MAX_SKEW
HelloProofOk(h) ==
    h.proof.mac = Hmac(IdentitySecretHex.bytes,
                       h.identity_id \o <<"|">> \o h.device_pk \o <<"|">>
                           \o h.client_key.bytes.id \o <<"|">> \o Decimal(h.ts))
HelloKeyOk(h) == h.client_key.valid /\ h.client_key.bytes.len = SECRET_LEN
IsHelloRecord(h) == h.ft = "text" /\ h.json

\* the envelope steps, stated on a received frame
EnvelopeOpens(key, f) ==
    /\ f.ft = "text" /\ f.json /\ f.kind = "cipher"
    /\ f.nonce.valid /\ f.nonce.bytes.len = NONCE_LEN
    /\ f.data.valid
    /\ f.data.bytes.key = key /\ f.data.bytes.nonce = f.nonce.bytes /\ f.data.bytes.intact
    /\ f.data.bytes.plain.cmd \in CommandTags
CommandIn(f) == f.data.bytes.plain

EnvelopeDiagnostics ==
    {"invalid cipher envelope", "expected cipher envelope", "invalid nonce encoding",
     "invalid nonce length", "invalid cipher data", "decrypt failed",
     "invalid command payload"}

\* command number i of connection c has run to its end
CommandDone(c, i) == i < Len(rx[c]) \/ pc[c] \in {"Authenticated", "Closed"}

CollaboratorsOf(tag) ==
    CASE tag = "list_sources" -> {"storage.list_sources"}
      [] tag = "list_source_states" -> {"recorder.list_states"}
      [] tag = "discover_onvif" -> {"camera.discover_onvif"}
      [] tag = "upsert_source" -> {"config.persist", "recorder.upsert_camera"}
      [] tag = "remove_source" -> {"config.persist", "recorder.remove_camera"}
      [] tag = "list_segments" -> {"storage.list_segments"}
      [] tag = "get_segment" -> {"storage.read_segment"}

(***************************************************************************)
(* C1: a connection is Authenticated (a hello_ack was sent, a session      *)
(* exists, the command loop runs or ran) only if its hello was a hello     *)
(* record that passes the type, identity, device, skew and proof checks    *)
(* and whose client key gave a 32-byte session key; and no connection ever *)
(* carries more than one hello_ack.                                        *)
(***************************************************************************)
C1_AuthenticatedOnlyAfterValidHello ==
    \A c \in Conns :
        /\ Cardinality(HelloAcks(c)) <= 1
        /\ (\/ HelloAcks(c) # {}
            \/ session[c].id # 0
            \/ rx[c] # <<>>
            \/ pc[c] \notin {"AwaitHello", "Closed"})
           => /\ IsHelloRecord(hello[c])
              /\ HelloTypeOk(hello[c]) /\ HelloIdentityOk(hello[c])
              /\ HelloDeviceOk(hello[c]) /\ HelloSkewOk(hello[c])
              /\ HelloProofOk(hello[c]) /\ HelloKeyOk(hello[c])
              /\ session[c].id # 0
              /\ session[c].key.len = SESSION_KEY_LEN

C1_Witness ==
    \E c \in Conns : pc[c] = "Authenticated" /\ Cardinality(HelloAcks(c)) = 1

(***************************************************************************)
(* C2: every collaborator call a connection made was made for a frame read *)
(* after its handshake succeeded, and that frame is a text frame whose     *)
(* envelope opens under the connection's own session key to the command    *)
(* the collaborator belongs to; a connection without a session made none.  *)
(***************************************************************************)
C2_DispatchOnlyDecryptedInAuthenticated ==
    \A c \in Conns :
        /\ (session[c].id = 0 \/ pc[c] = "AwaitHello") => calls[c] = <<>>
        /\ \A k \in 1..Len(calls[c]) :
              LET call == calls[c][k]
              IN /\ call.re \in 1..Len(rx[c])
                 /\ EnvelopeOpens(session[c].key, rx[c][call.re].frame)
                 /\ call.call \in CollaboratorsOf(CommandIn(rx[c][call.re].frame).cmd)

C2_Witness ==
    \E c \in Conns :
        /\ calls[c] # <<>>
        /\ \E i \in 1..Len(rx[c]) :
              /\ rx[c][i].frame.ft = "text"
              /\ ~EnvelopeOpens(session[c].key, rx[c][i].frame)

(***************************************************************************)
(* C3: a hello record that fails the type, identity, device, skew or proof *)
(* check leaves its connection Closed with no hello_ack, no frame read     *)
(* after the hello and no collaborator call, and the only thing sent on it *)
(* is one plaintext {ok:false,error} frame.                                *)
(***************************************************************************)
HelloCheckFails(h) ==
    /\ IsHelloRecord(h)
    /\ ~(HelloTypeOk(h) /\ HelloIdentityOk(h) /\ HelloDeviceOk(h) /\ HelloSkewOk(h)
         /\ HelloProofOk(h))

C3_RejectedHelloOneErrorThenClose ==
    \A c \in Conns :
        HelloCheckFails(hello[c])
        => /\ pc[c] = "Closed"
           /\ HelloAcks(c) = {}
           /\ session[c].id = 0
           /\ rx[c] = <<>>
           /\ calls[c] = <<>>
           /\ Len(out[c]) <= 1
           /\ ~broken[c] => Len(out[c]) = 1
           /\ \A i \in 1..Len(out[c]) :
                 /\ out[c][i].frame.type = "plain"
                 /\ out[c][i].frame.body.ok = FALSE
                 /\ out[c][i].frame.body.error \in
                       {"expected hello frame", "identity mismatch",
                        "device is not authorized for this identity",
                        "hello timestamp outside allowed skew", "invalid hello proof"}

C3_Witness ==
    \E c \in Conns :
        /\ HelloCheckFails(hello[c])
        /\ HelloProofOk(hello[c])
        /\ ~HelloSkewOk(hello[c])
        /\ Len(out[c]) = 1

(***************************************************************************)
(* C4: every frame sent on a connection after its hello_ack is a cipher    *)
(* envelope sealed under the session key of that connection, which is the  *)
(* session key of no other connection.                                     *)
(***************************************************************************)
C4_RepliesSealedUnderOwnKey ==
    \A c \in Conns :
        \A i \in 1..Len(out[c]) :
            (out[c][i].re >= 1 \/ \E j \in 1..(i - 1) : j \in HelloAcks(c))
            => /\ SealedUnder(out[c][i].frame, session[c].key)
               /\ \A d \in Conns \ {c} :
                     session[d].id # 0 => ~SealedUnder(out[c][i].frame, session[d].key)

C4_Witness ==
    \E c \in Conns :
        /\ \A d \in Conns : session[d].id # 0
        /\ \E i \in 1..Len(out[c]) : out[c][i].re >= 1

(***************************************************************************)
(* C5: a text frame read in Authenticated that fails an envelope step (not *)
(* an envelope, not of type cipher, nonce not base64 or not 24 bytes, data *)
(* not base64, authentication failure, plaintext not a command) is         *)
(* answered by exactly one frame, sealed under the session key and holding *)
(* {ok:false,error}; the connection is then awaiting its next frame; and   *)
(* a command that opens later on the same connection gets the reply of     *)
(* that command: a success exactly when the command and its collaborator   *)
(* succeeded.                                                              *)
(***************************************************************************)
EnvelopeFails(key, f) == f.ft = "text" /\ ~EnvelopeOpens(key, f)

\* the command of frame i and its collaborator call both succeed
CommandSucceeds(c, i) ==
    LET cmd == CommandIn(rx[c][i].frame)
    IN /\ rx[c][i].res.ok
       /\ cmd.cmd = "upsert_source" =>
             /\ Trim(cmd.source.source_id) # <<>>
             /\ Trim(cmd.source.rtsp_url) # <<>>
             /\ Trim(cmd.source.onvif_host) # <<>>

C5_EnvelopeErrorIsRecoverable ==
    \A c \in Conns :
        \A i \in 1..Len(rx[c]) :
            EnvelopeFails(session[c].key, rx[c][i].frame)
            => /\ Len(Group(c, i)) <= 1
               /\ ~broken[c] => Len(Group(c, i)) = 1
               /\ \A k \in 1..Len(Group(c, i)) :
                     LET fr == Group(c, i)[k].frame
                     IN /\ SealedUnder(fr, session[c].key)
                        /\ PlainOf(fr).ok = FALSE
                        /\ PlainOf(fr).error \in EnvelopeDiagnostics
               /\ i = Len(rx[c]) => pc[c] = "Authenticated"
               /\ \A j \in (i + 1)..Len(rx[c]) :
                     (/\ EnvelopeOpens(session[c].key, rx[c][j].frame)
                      /\ CommandDone(c, j)
                      /\ ~broken[c])
                     => /\ Group(c, j) # <<>>
                        /\ PlainOf(Group(c, j)[1].frame).ok = CommandSucceeds(c, j)

C5_Witness ==
    \E c \in Conns :
        \E i \in 1..Len(rx[c]) :
            /\ EnvelopeFails(session[c].key, rx[c][i].frame)
            /\ rx[c][i].frame.json /\ rx[c][i].frame.nonce.valid
            /\ rx[c][i].frame.nonce.bytes.len # NONCE_LEN
            /\ \E j \in (i + 1)..Len(rx[c]) :
                  /\ EnvelopeOpens(session[c].key, rx[c][j].frame)
                  /\ Len(Group(c, j)) = 1
                  /\ PlainOf(Group(c, j)[1].frame).ok

(***************************************************************************)
(* C6: a command whose collaborator call failed is answered by exactly one *)
(* frame, sealed under the session key and holding {ok:false,error} with   *)
(* the collaborator's message, and the connection is then awaiting its     *)
(* next frame.                                                             *)
(***************************************************************************)
CollaboratorFailed(c, i) ==
    EnvelopeOpens(session[c].key, rx[c][i].frame) /\ ~rx[c][i].res.ok

C6_CollaboratorFailureIsOneErrorReply ==
    \A c \in Conns :
        \A i \in 1..Len(rx[c]) :
            CollaboratorFailed(c, i)
            => /\ Len(Group(c, i)) <= 1
               /\ ~broken[c] => Len(Group(c, i)) = 1
               /\ \A k \in 1..Len(Group(c, i)) :
                     LET fr == Group(c, i)[k].frame
                     IN /\ SealedUnder(fr, session[c].key)
                        /\ PlainOf(fr) = [ok |-> FALSE, error |-> rx[c][i].res.err]
               /\ i = Len(rx[c]) => pc[c] = "Authenticated"

C6_Witness ==
    \E c \in Conns :
        \E i \in 1..Len(rx[c]) :
            /\ CollaboratorFailed(c, i)
            /\ CommandIn(rx[c][i].frame).cmd = "get_segment"
            /\ Len(Group(c, i)) = 1
            /\ pc[c] = "Authenticated"

(***************************************************************************)
(* C7: on one connection the frames sent follow the order of the frames    *)
(* they answer, and when a further frame has been read the answer to every *)
(* earlier text frame is complete: it is there, and a segment stream that  *)
(* began has all its chunks and its segment_end.                           *)
(***************************************************************************)
RepliesInOrder(c) ==
    \A i, j \in 1..Len(out[c]) : i < j => out[c][i].re <= out[c][j].re

ChunksOf(n) == (n + CHUNK_BYTES - 1) \div CHUNK_BYTES

ReplyComplete(c, i) ==
    LET g == Group(c, i)
    IN /\ g # <<>>
       /\ (PlainOf(g[1].frame).ok /\ PlainOf(g[1].frame).cmd = "segment_start")
          => /\ Len(g) = ChunksOf(PlainOf(g[1].frame).bytes) + 2
             /\ PlainOf(g[Len(g)].frame).cmd = "segment_end"

C7_OneCommandAtATime ==
    \A c \in Conns :
        /\ RepliesInOrder(c)
        /\ \A i \in 1..(Len(rx[c]) - 1) :
              (rx[c][i].frame.ft = "text" /\ ~broken[c]) => ReplyComplete(c, i)
        /\ \A e \in 1..Len(out[c]) : out[c][e].re <= Len(rx[c])

C7_Witness ==
    \E c \in Conns :
        /\ Len(rx[c]) >= 2
        /\ Len(Group(c, 1)) = 4
        /\ Group(c, 2) # <<>>

(***************************************************************************)
(* C8: a decoded command other than get_segment is answered by one sealed  *)
(* frame with a boolean ok: never more than one, and exactly one once the  *)
(* command has run to its end.                                             *)
(***************************************************************************)
C8_ExactlyOneReply ==
    \A c \in Conns :
        \A i \in 1..Len(rx[c]) :
            (/\ EnvelopeOpens(session[c].key, rx[c][i].frame)
             /\ CommandIn(rx[c][i].frame).cmd # "get_segment")
            => /\ Len(Group(c, i)) <= 1
               /\ (CommandDone(c, i) /\ ~broken[c]) => Len(Group(c, i)) = 1
               /\ \A k \in 1..Len(Group(c, i)) :
                     /\ SealedUnder(Group(c, i)[k].frame, session[c].key)
                     /\ PlainOf(Group(c, i)[k].frame).ok \in BOOLEAN

C8_Witness ==
    \E c \in Conns :
        \E i \in 1..Len(rx[c]) :
            /\ EnvelopeOpens(session[c].key, rx[c][i].frame)
            /\ CommandIn(rx[c][i].frame).cmd = "upsert_source"
            /\ Len(Group(c, i)) = 1
            /\ PlainOf(Group(c, i)[1].frame).ok

(***************************************************************************)
(* C9: a get_segment that read a payload of L bytes and ran to its end on  *)
(* a working transport sent segment_start with bytes = L, then             *)
(* ceil(L/49152) segment_chunk frames with seq 0, 1, 2, ... whose decoded  *)
(* data are the consecutive 49152-byte pieces of the payload (the last one *)
(* the remainder), then segment_end; none of them for L = 0.               *)
(***************************************************************************)
StreamOf(c, i) == [k \in 1..Len(Group(c, i)) |-> PlainOf(Group(c, i)[k].frame)]

C9_SegmentStreamIsThePayload ==
    \A c \in Conns :
        \A i \in 1..Len(rx[c]) :
            (/\ EnvelopeOpens(session[c].key, rx[c][i].frame)
             /\ CommandIn(rx[c][i].frame).cmd = "get_segment"
             /\ rx[c][i].res.ok
             /\ CommandDone(c, i)
             /\ ~broken[c])
            => LET payload == rx[c][i].res.val
                   L == payload.len
                   n == IF L % CHUNK_BYTES = 0 THEN L \div CHUNK_BYTES
                        ELSE L \div CHUNK_BYTES + 1
                   g == StreamOf(c, i)
               IN /\ Len(g) = n + 2
                  /\ g[1].ok /\ g[1].cmd = "segment_start" /\ g[1].bytes = L
                  /\ g[1].name = CommandIn(rx[c][i].frame).name
                  /\ \A k \in 1..n :
                        /\ g[k + 1].ok /\ g[k + 1].cmd = "segment_chunk"
                        /\ g[k + 1].seq = k - 1
                        /\ g[k + 1].data.valid
                        /\ g[k + 1].data.bytes.id = payload.id
                        /\ g[k + 1].data.bytes.lo = (k - 1) * CHUNK_BYTES
                        /\ g[k + 1].data.bytes.hi = IF k = n THEN L ELSE k * CHUNK_BYTES
                        /\ g[k + 1].data.bytes.len =
                              g[k + 1].data.bytes.hi - g[k + 1].data.bytes.lo
                        /\ g[k + 1].data.bytes.len > 0
                  /\ g[n + 2].ok /\ g[n + 2].cmd = "segment_end"
                  /\ g[n + 2].name = CommandIn(rx[c][i].frame).name

C9_Witness ==
    \E c \in Conns :
        \E i \in 1..Len(rx[c]) :
            /\ CommandDone(c, i)
            /\ Len(Group(c, i)) = 4
            /\ StreamOf(c, i)[1].cmd = "segment_start"
            /\ StreamOf(c, i)[1].bytes = CHUNK_BYTES + 1
            /\ StreamOf(c, i)[4].cmd = "segment_end"

(***************************************************************************)
(* C10, as claimed: every reply holds a boolean ok, and a success reply    *)
(* holds cmd equal to the wire tag of the command it answers, get_segment  *)
(* included.                                                               *)
(***************************************************************************)
ReplyBodies(c) ==
    {[re |-> out[c][i].re,
      body |-> IF out[c][i].frame.type = "cipher" THEN PlainOf(out[c][i].frame)
               ELSE out[c][i].frame.body] :
        i \in {j \in 1..Len(out[c]) : out[c][j].frame.type # "hello_ack"}}

C10_SuccessEchoesCommandTag ==
    \A c \in Conns :
        \A r \in ReplyBodies(c) :
            /\ r.body.ok \in BOOLEAN
            /\ r.body.ok => r.body.cmd = CommandIn(rx[c][r.re].frame).cmd

(***************************************************************************)
(* C10, amended: every reply holds a boolean ok; a success reply to a      *)
(* command other than get_segment holds cmd equal to the wire tag of that  *)
(* command, and the success frames of get_segment hold cmd segment_start,  *)
(* segment_chunk or segment_end.                                           *)
(***************************************************************************)
C10_SuccessEchoesTagExceptGetSegment ==
    \A c \in Conns :
        \A r \in ReplyBodies(c) :
            /\ r.body.ok \in BOOLEAN
            /\ r.body.ok =>
                  LET tag == CommandIn(rx[c][r.re].frame).cmd
                  IN IF tag = "get_segment"
                     THEN r.body.cmd \in {"segment_start", "segment_chunk", "segment_end"}
                     ELSE r.body.cmd = tag

C10_Witness ==
    \E c \in Conns :
        /\ \E r \in ReplyBodies(c) : r.body.ok /\ r.body.cmd = "list_segments"
        /\ \E r \in ReplyBodies(c) : r.body.ok /\ r.body.cmd = "segment_end"

(***************************************************************************)
(* The handshake alone, under every configuration the process may have     *)
(* been started with, every combination of failing hello checks and a      *)
(* clock that moves between connections.                                   *)
(***************************************************************************)
\* config.json is not validated beyond apply_defaults filling empty fields:
\* the device list may be empty and a secret may be any non-empty text
ApiConfigs ==
    {ApiConfig,
     [ApiConfig EXCEPT !.authorized_device_pks = <<>>],
     [ApiConfig EXCEPT !.server_secret_hex = Encoded(Bytes("responder-secret", SECRET_LEN + 1))],
     [ApiConfig EXCEPT !.identity_secret_hex = Encoded(Bytes("pairing-secret", SECRET_LEN - 1))]}

\* the readings of the server clock
ClockValues == {StartTime, StartTime + MAX_SKEW, StartTime + MAX_SKEW + 1}

\* ts of a hello: the start of the run, and 300 and 301 seconds either side
HelloTimes ==
    {StartTime - MAX_SKEW - 1, StartTime - MAX_SKEW, StartTime,
     StartTime + MAX_SKEW, StartTime + MAX_SKEW + 1}

\* the hello a peer holding secret_hex builds, its proof in either case
SignedHello(secret_hex, h, upper) ==
    HelloText(h, [ProofFor(secret_hex, h) EXCEPT !.upper = upper])

\* every combination of a wrong type, identity, device, timestamp and proof;
\* the good hello at every timestamp, with every client key and with its
\* proof in upper case
AnyHelloReqs(secret_hex) ==
    LET good == GoodFields(StartTime)
    IN {HelloText(h, p) :
           h \in [kind : {"hello", "cipher"}, identity_id : {IdentityId, <<"i">>},
                  device_pk : {DevA, DevX}, client_key : {good.client_key},
                  ts : {StartTime, StartTime - MAX_SKEW - 1}],
           p \in {ForgedProof}}
       \cup {SignedHello(secret_hex, h, FALSE) :
                h \in [kind : {"hello", "cipher"}, identity_id : {IdentityId, <<"i">>},
                       device_pk : {DevA, DevX}, client_key : {good.client_key},
                       ts : {StartTime, StartTime - MAX_SKEW - 1}]}
       \cup {SignedHello(secret_hex, [good EXCEPT !.ts = t], FALSE) : t \in HelloTimes}
       \cup {SignedHello(secret_hex, [good EXCEPT !.client_key = k], FALSE) : k \in ClientKeys}
       \cup {SignedHello(secret_hex, good, TRUE)}

AnyFirstFrames(secret_hex) ==
    {[ft |-> "binary"], [ft |-> "ping"], [ft |-> "close"], [ft |-> "error"], NoFrame,
     [ft |-> "text", json |-> FALSE]}
    \cup AnyHelloReqs(secret_hex)

\* the pairing secret as the peers hold it: the configured one when it is
\* usable, else the one the peers were paired with
PeerSecretHex(cfgv) ==
    IF parse_hex_exact(cfgv.api.identity_secret_hex, SECRET_LEN).ok
    THEN cfgv.api.identity_secret_hex ELSE IdentitySecretHex

HelloInit ==
    /\ pc = [c \in Conns |-> "AwaitHello"]
    /\ session = [c \in Conns |-> NoSession]
    /\ local = [c \in Conns |-> NoLocal]
    /\ out = [c \in Conns |-> <<>>]
    /\ broken = [c \in Conns |-> FALSE]
    /\ hello = [c \in Conns |-> NoFrame]
    /\ rx = [c \in Conns |-> <<>>]
    /\ calls = [c \in Conns |-> <<>>]
    /\ cfg \in {[InitialConfig EXCEPT !.api = a] : a \in ApiConfigs}
    /\ persisted = InitialConfig.cameras
    /\ registry = <<>>
    /\ nextSid = 1
    /\ nframes = 0
    /\ now = StartTime
    /\ probe = NoProbe
    /\ workers = {}

\* handle_ws up to the command loop, on any first frame; the history keeps
\* the reading of the clock that validate_hello took
handle_ws_first(c) ==
    /\ pc[c] = "AwaitHello"
    /\ \A d \in Conns : d < c => pc[d] # "AwaitHello"
    /\ nframes < MaxFrames
    /\ \E f \in AnyFirstFrames(PeerSecretHex(cfg)), good \in BOOLEAN :
        LET r == handshake(cfg, f, now, nextSid)
        IN /\ hello' = [hello EXCEPT ![c] = f @@ [at |-> now]]
           /\ out' = [out EXCEPT ![c] = Delivered(c, r.send, 0, good)]
           /\ broken' = [broken EXCEPT ![c] = TransportAfter(c, r.send, good)]
           /\ session' = [session EXCEPT ![c] = r.session]
           /\ pc' = [pc EXCEPT ![c] = IF r.accepted THEN "Authenticated" ELSE "Closed"]
           /\ nextSid' = IF r.drew THEN nextSid + 1 ELSE nextSid
    /\ nframes' = nframes + 1
    /\ UNCHANGED <<local, rx, calls, cfg, persisted, registry, now, probe, workers>>

\* time passes
clock_advance ==
    /\ \E t \in ClockValues : t > now /\ now' = t
    /\ UNCHANGED <<pc, session, local, out, broken, hello, rx, calls, cfg, persisted,
                   registry, nextSid, nframes, probe, workers>>

HelloNext ==
    \/ \E c \in Conns : handle_ws_first(c)
    \/ clock_advance

HelloSpec == HelloInit /\ [][HelloNext]_vars

(***************************************************************************)
(* The checks of the hello, stated on the hello a connection received, the *)
(* configuration and the reading of the clock at that moment.              *)
(***************************************************************************)
TypeOkAt(h) == h.kind = "hello"
IdentityOkAt(h) == h.identity_id = cfg.api.identity_id
DeviceOkAt(h) ==
    \/ cfg.api.authorized_device_pks = <<>>
    \/ \E i \in 1..Len(cfg.api.authorized_device_pks) :
          cfg.api.authorized_device_pks[i] = h.device_pk
SkewOkAt(h) == h.at - h.ts <= MAX_SKEW /\ h.ts - h.at <= MAX_SKEW
PairingSecretOk ==
    cfg.api.identity_secret_hex.valid /\ cfg.api.identity_secret_hex.bytes.len = SECRET_LEN
ResponderSecretOk ==
    cfg.api.server_secret_hex.valid /\ cfg.api.server_secret_hex.bytes.len = SECRET_LEN
ProofOkAt(h) ==
    /\ PairingSecretOk
    /\ h.proof.mac = Hmac(cfg.api.identity_secret_hex.bytes,
                          h.identity_id \o <<"|">> \o h.device_pk \o <<"|">>
                              \o h.client_key.bytes.id \o <<"|">> \o Decimal(h.ts))
ChecksPassAt(h) ==
    TypeOkAt(h) /\ IdentityOkAt(h) /\ DeviceOkAt(h) /\ SkewOkAt(h) /\ ProofOkAt(h)

\* the failing checks of a hello, numbered in the order of the claim
FailingChecks(h) ==
    {n \in 1..5 : \/ n = 1 /\ ~TypeOkAt(h)
                  \/ n = 2 /\ ~IdentityOkAt(h)
                  \/ n = 3 /\ ~DeviceOkAt(h)
                  \/ n = 4 /\ ~SkewOkAt(h)
                  \/ n = 5 /\ ~ProofOkAt(h)}

\* the diagnostic of check n
CheckDiagnostic(n) ==
    CASE n = 1 -> "expected hello frame"
      [] n = 2 -> "identity mismatch"
      [] n = 3 -> "device is not authorized for this identity"
      [] n = 4 -> "hello timestamp outside allowed skew"
      [] n = 5 -> IF PairingSecretOk THEN "invalid hello proof"
                  ELSE "expected " \o ToString(SECRET_LEN) \o " bytes, got "
                       \o ToString(cfg.api.identity_secret_hex.bytes.len)

Earliest(S) == CHOOSE n \in S : \A m \in S : n <= m

(***************************************************************************)
(* C11: a hello record that fails one or several of the type, identity,    *)
(* device, skew and proof checks is answered with the diagnostic of the    *)
(* earliest failing check in that order, and with nothing else.            *)
(***************************************************************************)
C11_EarliestFailingCheckWins ==
    \A c \in Conns :
        (IsHelloRecord(hello[c]) /\ FailingChecks(hello[c]) # {})
        => /\ Len(out[c]) <= 1
           /\ ~broken[c] => Len(out[c]) = 1
           /\ \A i \in 1..Len(out[c]) :
                 /\ out[c][i].frame.type = "plain"
                 /\ out[c][i].frame.body.error =
                       CheckDiagnostic(Earliest(FailingChecks(hello[c])))

C11_Witness ==
    \E c \in Conns :
        /\ IsHelloRecord(hello[c])
        /\ FailingChecks(hello[c]) = {2, 3, 4, 5}
        /\ Len(out[c]) = 1
        /\ out[c][1].frame.body.error = "identity mismatch"

(***************************************************************************)
(* C12: a hello that passes the type, identity, device and proof checks    *)
(* and whose key derivation succeeds is accepted exactly when the reading  *)
(* of the server clock and ts are at most 300 seconds apart, whichever of  *)
(* the two is the later; when it is rejected the diagnostic is the skew    *)
(* one.                                                                    *)
(***************************************************************************)
Accepted(c) == session[c].id # 0 /\ pc[c] # "Closed" /\ pc[c] # "AwaitHello"

OnlySkewInQuestion(h) ==
    /\ IsHelloRecord(h)
    /\ TypeOkAt(h) /\ IdentityOkAt(h) /\ DeviceOkAt(h) /\ ProofOkAt(h)
    /\ HelloKeyOk(h) /\ ResponderSecretOk

C12_SkewBoundary ==
    \A c \in Conns :
        OnlySkewInQuestion(hello[c])
        => LET h == hello[c]
               apart == IF h.at >= h.ts THEN h.at - h.ts ELSE h.ts - h.at
           IN /\ Accepted(c) <=> apart <= 300
              /\ apart > 300 =>
                    /\ pc[c] = "Closed"
                    /\ \A i \in 1..Len(out[c]) :
                          out[c][i].frame.type = "plain"
                          /\ out[c][i].frame.body.error
                                = "hello timestamp outside allowed skew"

\* a hello 300 seconds in the future accepted, one 301 seconds in the past
\* rejected
C12_Witness ==
    \E c, d \in Conns :
        /\ OnlySkewInQuestion(hello[c]) /\ OnlySkewInQuestion(hello[d])
        /\ hello[c].ts - hello[c].at = 300 /\ Accepted(c)
        /\ hello[d].at - hello[d].ts = 301 /\ ~Accepted(d) /\ Len(out[d]) = 1

\* the other two: 300 seconds in the past accepted, 301 in the future rejected
C12_WitnessMirror ==
    \E c, d \in Conns :
        /\ OnlySkewInQuestion(hello[c]) /\ OnlySkewInQuestion(hello[d])
        /\ hello[c].at - hello[c].ts = 300 /\ Accepted(c)
        /\ hello[d].ts - hello[d].at = 301 /\ ~Accepted(d) /\ Len(out[d]) = 1

(***************************************************************************)
(* C13: with a non-empty authorized-device list a hello whose devicePk is  *)
(* not in the list is rejected, whatever its proof and timestamp; with an  *)
(* empty list the devicePk decides nothing: a hello that passes the other  *)
(* checks is accepted with any devicePk.                                   *)
(***************************************************************************)
DeviceListed(h) ==
    \E i \in 1..Len(cfg.api.authorized_device_pks) :
        cfg.api.authorized_device_pks[i] = h.device_pk

C13_DeviceAuthorization ==
    \A c \in Conns :
        IsHelloRecord(hello[c])
        => LET h == hello[c]
           IN /\ (cfg.api.authorized_device_pks # <<>> /\ ~DeviceListed(h))
                 => /\ ~Accepted(c)
                    /\ pc[c] = "Closed"
                    /\ HelloAcks(c) = {}
              /\ (/\ cfg.api.authorized_device_pks = <<>>
                  /\ TypeOkAt(h) /\ IdentityOkAt(h) /\ SkewOkAt(h) /\ ProofOkAt(h)
                  /\ HelloKeyOk(h) /\ ResponderSecretOk)
                 => Accepted(c)

\* an unlisted device with a valid proof and a fresh timestamp, rejected
C13_Witness ==
    \E c \in Conns :
        /\ IsHelloRecord(hello[c])
        /\ cfg.api.authorized_device_pks # <<>> /\ ~DeviceListed(hello[c])
        /\ TypeOkAt(hello[c]) /\ IdentityOkAt(hello[c])
        /\ hello[c].ts = hello[c].at /\ ProofOkAt(hello[c])
        /\ Len(out[c]) = 1
        /\ out[c][1].frame.body.error = "device is not authorized for this identity"

\* the same hello accepted when the list is empty
C13_WitnessEmptyList ==
    \E c \in Conns :
        /\ IsHelloRecord(hello[c])
        /\ cfg.api.authorized_device_pks = <<>>
        /\ hello[c].device_pk = DevX
        /\ Accepted(c)

(***************************************************************************)
(* The functions of crypto.rs on their own.  A run starts from arguments   *)
(* drawn from a bounded set and applies the function to them once; no      *)
(* connection is open meanwhile.                                           *)
(***************************************************************************)
conn_vars == <<pc, session, local, out, broken, hello, rx, calls, cfg, persisted,
               registry, nextSid, nframes, now, workers>>

ProbeInit(probes) ==
    /\ pc = [c \in Conns |-> "AwaitHello"]
    /\ session = [c \in Conns |-> NoSession]
    /\ local = [c \in Conns |-> NoLocal]
    /\ out = [c \in Conns |-> <<>>]
    /\ broken = [c \in Conns |-> FALSE]
    /\ hello = [c \in Conns |-> NoFrame]
    /\ rx = [c \in Conns |-> <<>>]
    /\ calls = [c \in Conns |-> <<>>]
    /\ cfg = InitialConfig
    /\ persisted = InitialConfig.cameras
    /\ registry = <<>>
    /\ nextSid = 1
    /\ nframes = 0
    /\ now = StartTime
    /\ workers = {}
    /\ probe \in probes

\* texts of one or two characters, the separator of the proof material
\* among them
ProofChars == {"a", "b", "|"}
ProofTexts == {<<x>> : x \in ProofChars} \cup {<<x, y>> : x, y \in ProofChars}

\* two texts of one length that differ in exactly one character
OneCharApart(s, t) ==
    Len(s) = Len(t) /\ Cardinality({i \in 1..Len(s) : s[i] # t[i]}) = 1

ProofFields ==
    [identity_id : {<<"a">>, <<"a", "|">>}, device_pk : {<<"b">>, <<"|", "b">>},
     client_key : {<<"a", "b">>}, ts : {7, 10, 17}]

\* the fields f, and f with one character of one field changed
OneCharChanged(f) ==
    {[f EXCEPT !.identity_id = t] : t \in {u \in ProofTexts : OneCharApart(u, f.identity_id)}}
    \cup {[f EXCEPT !.device_pk = t] : t \in {u \in ProofTexts : OneCharApart(u, f.device_pk)}}
    \cup {[f EXCEPT !.client_key = t] : t \in {u \in ProofTexts : OneCharApart(u, f.client_key)}}
    \cup {[f EXCEPT !.ts = t] :
             t \in {u \in 0..99 : OneCharApart(Decimal(u), Decimal(f.ts))}}

\* compute_hello_proof on (secret, signed) and verify_hello_proof of its
\* result, written in lower or upper case, on (secret, shown)
ProofProbes ==
    UNION {{[fn |-> "hello_proof", done |-> FALSE, secret |-> k, signed |-> f,
             shown |-> g, upper |-> u] :
               k \in {IdentitySecretHex, Encoded(Bytes("pairing-secret", SECRET_LEN - 1))},
               g \in {f} \cup OneCharChanged(f), u \in BOOLEAN} :
           f \in ProofFields}

ProofInit == ProbeInit(ProofProbes)

apply_hello_proof ==
    /\ probe.fn = "hello_proof" /\ ~probe.done
    /\ LET f == probe.signed
           g == probe.shown
           proof == compute_hello_proof(probe.secret, f.identity_id, f.device_pk,
                                        Undecodable(f.client_key), f.ts)
           proof_hex == IF proof.ok THEN [proof.val EXCEPT !.upper = probe.upper]
                        ELSE ForgedProof
       IN probe' = [fn |-> "hello_proof", done |-> TRUE, secret |-> probe.secret,
                    signed |-> f, shown |-> g, upper |-> probe.upper,
                    proof |-> proof,
                    verified |-> verify_hello_proof(probe.secret, g.identity_id,
                                                    g.device_pk,
                                                    Undecodable(g.client_key), g.ts,
                                                    proof_hex)]
    /\ UNCHANGED conn_vars

ProofNext == apply_hello_proof

ProofSpec == ProofInit /\ [][ProofNext]_vars

(***************************************************************************)
(* C14: with a pairing secret of 32 bytes, verify_hello_proof accepts the  *)
(* proof compute_hello_proof returned for the same identityId, devicePk,   *)
(* clientKey and ts, written in lower or in upper case, and rejects it     *)
(* when one character of one of the four is changed.                       *)
(***************************************************************************)
C14_ProofSymmetry ==
    (probe.fn = "hello_proof" /\ probe.done
        /\ parse_hex_exact(probe.secret, SECRET_LEN).ok)
    => /\ probe.proof.ok
       /\ probe.verified.ok
       /\ probe.shown = probe.signed => probe.verified.val
       /\ probe.shown \in OneCharChanged(probe.signed) => ~probe.verified.val

\* the ts 10 read as 17 with the proof of 10 in upper case: rejected
C14_Witness ==
    /\ probe.fn = "hello_proof" /\ probe.done
    /\ probe.signed.ts = 10 /\ probe.shown = [probe.signed EXCEPT !.ts = 17]
    /\ probe.upper
    /\ probe.proof.ok /\ probe.verified.ok /\ ~probe.verified.val

C14_WitnessAccepted ==
    /\ probe.fn = "hello_proof" /\ probe.done
    /\ probe.shown = probe.signed /\ probe.upper
    /\ probe.verified.ok /\ probe.verified.val

(***************************************************************************)
(* C15: a hello that was accepted on one connection is accepted on a later *)
(* connection that sends the same record, proof included, whenever the     *)
(* clock is then still at most 300 seconds from its ts (the configuration  *)
(* does not change during a run).                                          *)
(***************************************************************************)
SameHello(a, b) ==
    /\ a.kind = b.kind /\ a.identity_id = b.identity_id /\ a.device_pk = b.device_pk
    /\ a.client_key = b.client_key /\ a.ts = b.ts /\ a.proof = b.proof

C15_AcceptedHelloIsReplayable ==
    \A c, d \in Conns :
        (/\ c < d
         /\ Accepted(c)
         /\ IsHelloRecord(hello[d])
         /\ SameHello(hello[c], hello[d])
         /\ SkewOkAt(hello[d]))
        => /\ Accepted(d)
           /\ ~broken[d] => HelloAcks(d) # {}

\* the hello of connection 1 replayed 300 seconds later on connection 2
C15_Witness ==
    /\ Accepted(1) /\ Accepted(2)
    /\ SameHello(hello[1], hello[2])
    /\ hello[2].at = hello[1].at + 300
    /\ HelloAcks(1) # {} /\ HelloAcks(2) # {}

(***************************************************************************)
(* C16: every session has its own session id, announced in its hello_ack,  *)
(* and a session key derived from a context that holds that id; no two     *)
(* connections share an id or a key, also when both sent the same hello.   *)
(* The key is in no frame sent in the clear and in no part of the shared   *)
(* state (configuration, configuration file, capture registry).            *)
(***************************************************************************)
HasSession(c) == session[c].id # 0

CameraFields ==
    {"source_id", "name", "onvif_host", "onvif_port", "rtsp_url", "username",
     "password", "enabled", "segment_secs"}

\* the shared state holds the configuration it started with and camera
\* records, and nothing else
SharedStateHoldsNoKey ==
    /\ DOMAIN cfg = {"api", "storage_root", "cameras"}
    /\ cfg.api \in ApiConfigs
    /\ \A i \in 1..Len(cfg.cameras) : DOMAIN cfg.cameras[i] = CameraFields
    /\ \A i \in 1..Len(persisted) : DOMAIN persisted[i] = CameraFields
    /\ \A s \in DOMAIN registry :
          /\ DOMAIN registry[s] = {"cam", "state", "handle"}
          /\ DOMAIN registry[s].cam = CameraFields

C16_FreshSessionPerHandshake ==
    /\ \A c \in Conns :
          HasSession(c)
          => /\ session[c].key.info.session_id = session[c].id
             /\ session[c].key.info.identity_id = cfg.api.identity_id
             /\ \A i \in HelloAcks(c) :
                   /\ out[c][i].frame.sessionId = session[c].id
                   /\ out[c][i].frame.serverKey.bytes # session[c].key
             /\ \A d \in Conns \ {c} :
                   HasSession(d) => /\ session[d].id # session[c].id
                                    /\ session[d].key # session[c].key
    /\ SharedStateHoldsNoKey

C16_Witness ==
    /\ HasSession(1) /\ HasSession(2)
    /\ SameHello(hello[1], hello[2])
    /\ session[1].key # session[2].key
    /\ HelloAcks(1) # {} /\ HelloAcks(2) # {}

(***************************************************************************)
(* C17: when the responder secret, the pairing secret or the client key of *)
(* a hello does not decode to exactly 32 bytes, derive_session_key returns *)
(* an error on them and the connection ends Closed with no hello_ack and   *)
(* no session, one plaintext {ok:false,error} frame being all that was     *)
(* sent; when the hello passed its five checks that frame says that the    *)
(* key derivation failed.                                                  *)
(***************************************************************************)
KeyMaterialOk(h) == ResponderSecretOk /\ PairingSecretOk /\ HelloKeyOk(h)

\* the error of the first of the three that does not decode to 32 bytes
KeyMaterialError(h) ==
    LET wrong(e) == IF ~e.valid THEN "" ELSE
                       "expected " \o ToString(SECRET_LEN) \o " bytes, got "
                           \o ToString(e.bytes.len)
    IN IF ~ResponderSecretOk
       THEN IF cfg.api.server_secret_hex.valid THEN wrong(cfg.api.server_secret_hex)
            ELSE "invalid hex"
       ELSE IF ~PairingSecretOk
       THEN IF cfg.api.identity_secret_hex.valid THEN wrong(cfg.api.identity_secret_hex)
            ELSE "invalid hex"
       ELSE IF h.client_key.valid THEN wrong(h.client_key) ELSE "invalid base64"

C17_BadKeyMaterialEndsHandshake ==
    \A c \in Conns :
        (IsHelloRecord(hello[c]) /\ ~KeyMaterialOk(hello[c]))
        => LET h == hello[c]
           IN /\ ~derive_session_key(cfg.api.server_secret_hex,
                                     cfg.api.identity_secret_hex, h.client_key,
                                     session_context(cfg.api.identity_id, nextSid)).ok
              /\ pc[c] = "Closed"
              /\ HelloAcks(c) = {}
              /\ ~HasSession(c)
              /\ Len(out[c]) <= 1
              /\ ~broken[c] => Len(out[c]) = 1
              /\ \A i \in 1..Len(out[c]) :
                    /\ out[c][i].frame.type = "plain"
                    /\ out[c][i].frame.body.ok = FALSE
                    /\ ChecksPassAt(h)
                       => out[c][i].frame.body.error
                             = "key derivation failed: " \o KeyMaterialError(h)

\* a hello that passes its five checks and carries a client key of 31 bytes
C17_Witness ==
    \E c \in Conns :
        /\ IsHelloRecord(hello[c]) /\ ChecksPassAt(hello[c])
        /\ hello[c].client_key.valid /\ hello[c].client_key.bytes.len = SECRET_LEN - 1
        /\ pc[c] = "Closed"
        /\ Len(out[c]) = 1
        /\ out[c][1].frame.body.error = "key derivation failed: expected 32 bytes, got 31"

\* the same with a responder secret of 33 bytes and a good client key
C17_WitnessResponderSecret ==
    \E c \in Conns :
        /\ IsHelloRecord(hello[c]) /\ ChecksPassAt(hello[c]) /\ HelloKeyOk(hello[c])
        /\ ~ResponderSecretOk
        /\ Len(out[c]) = 1
        /\ out[c][1].frame.body.error = "key derivation failed: expected 32 bytes, got 33"

\* the same with a pairing secret of 31 bytes: the proof check ends it
C17_WitnessPairingSecret ==
    \E c \in Conns :
        /\ IsHelloRecord(hello[c]) /\ FailingChecks(hello[c]) = {5}
        /\ ~PairingSecretOk
        /\ Len(out[c]) = 1
        /\ out[c][1].frame.body.error = "expected 32 bytes, got 31"

(***************************************************************************)
(* encrypt_payload and decrypt_payload on their own: a plaintext is sealed *)
(* under (key, nonce); the ciphertext, as it is or with one byte changed,  *)
(* is opened under (key2, nonce2).                                         *)
(***************************************************************************)
AeadKeys ==
    {Bytes("k1", SESSION_KEY_LEN), Bytes("k2", SESSION_KEY_LEN),
     Bytes("k1", SESSION_KEY_LEN - 1), Bytes("k1", SESSION_KEY_LEN + 1)}
AeadNonces == {Bytes("n1", NONCE_LEN), Bytes("n2", NONCE_LEN)}
AeadPlaintexts == {[cmd |-> "list_sources"], [ok |-> TRUE, cmd |-> "segment_end"]}

AeadProbes ==
    {[fn |-> "aead", done |-> FALSE, key |-> k, nonce |-> n, plain |-> p,
      key2 |-> k2, nonce2 |-> n2, changed |-> t] :
        k \in AeadKeys, n \in AeadNonces, p \in AeadPlaintexts,
        k2 \in AeadKeys, n2 \in AeadNonces, t \in BOOLEAN}

AeadInit == ProbeInit(AeadProbes)

\* when the key sealed nothing, the ciphertext opened is one sealed under
\* the first key of full length
apply_aead ==
    /\ probe.fn = "aead" /\ ~probe.done
    /\ LET sealed == encrypt_payload(probe.key, probe.nonce, probe.plain)
           cipher == IF sealed.ok THEN sealed.val
                     ELSE Sealed(Bytes("k1", SESSION_KEY_LEN), probe.nonce, probe.plain)
           shown == IF probe.changed THEN [cipher EXCEPT !.intact = FALSE] ELSE cipher
       IN probe' = [fn |-> "aead", done |-> TRUE, key |-> probe.key,
                    nonce |-> probe.nonce, plain |-> probe.plain, key2 |-> probe.key2,
                    nonce2 |-> probe.nonce2, changed |-> probe.changed,
                    sealed |-> sealed,
                    opened |-> decrypt_payload(probe.key2, probe.nonce2, shown)]
    /\ UNCHANGED conn_vars

AeadNext == apply_aead

AeadSpec == AeadInit /\ [][AeadNext]_vars

(***************************************************************************)
(* C18: under a key of 32 bytes decrypt_payload returns the plaintext that *)
(* encrypt_payload sealed with the same key and nonce; it returns an error *)
(* under another key, under another nonce and on a ciphertext with a byte  *)
(* changed; and each of the two returns an error when its key is not 32    *)
(* bytes long.                                                             *)
(***************************************************************************)
C18_AeadRoundTrip ==
    (probe.fn = "aead" /\ probe.done)
    => /\ probe.sealed.ok <=> probe.key.len = 32
       /\ probe.key2.len # 32 => ~probe.opened.ok
       /\ probe.sealed.ok
          => /\ (probe.key2 = probe.key /\ probe.nonce2 = probe.nonce /\ ~probe.changed)
                => probe.opened.ok /\ probe.opened.val = probe.plain
             /\ (probe.key2 # probe.key \/ probe.nonce2 # probe.nonce \/ probe.changed)
                => ~probe.opened.ok

\* opened under the nonce it was not sealed with, all else equal: an error
C18_Witness ==
    /\ probe.fn = "aead" /\ probe.done
    /\ probe.sealed.ok
    /\ probe.key2 = probe.key /\ probe.nonce2 # probe.nonce /\ ~probe.changed
    /\ ~probe.opened.ok /\ probe.opened.err = "decrypt failed"

C18_WitnessRoundTrip ==
    /\ probe.fn = "aead" /\ probe.done
    /\ probe.sealed.ok
    /\ probe.key2 = probe.key /\ probe.nonce2 = probe.nonce /\ ~probe.changed
    /\ probe.opened.ok /\ probe.opened.val = probe.plain

(***************************************************************************)
(* C19: a connection leaves AwaitHello on its first frame.  When that is   *)
(* not a text frame, or the peer is gone before any frame, the connection  *)
(* is Closed and nothing was sent; when it is a text frame that is not a   *)
(* hello record, or a record whose type is not hello, the connection is    *)
(* Closed and one plaintext error frame is all that was sent.  In both     *)
(* cases no further frame is read.                                         *)
(***************************************************************************)
NeverEntered(c) ==
    /\ pc[c] = "Closed"
    /\ ~HasSession(c)
    /\ rx[c] = <<>>
    /\ calls[c] = <<>>

OnlySent(c, message) ==
    /\ Len(out[c]) <= 1
    /\ ~broken[c] => Len(out[c]) = 1
    /\ \A i \in 1..Len(out[c]) :
          /\ out[c][i].frame.type = "plain"
          /\ out[c][i].frame.body.ok = FALSE
          /\ out[c][i].frame.body.error = message

C19_AwaitHelloReadsOneFrame ==
    \A c \in Conns :
        IF pc[c] = "AwaitHello"
        THEN hello[c].ft = "none" /\ out[c] = <<>> /\ rx[c] = <<>> /\ ~HasSession(c)
        ELSE /\ hello[c].ft # "text"
                => NeverEntered(c) /\ out[c] = <<>> /\ ~broken[c]
             /\ (hello[c].ft = "text" /\ ~hello[c].json)
                => NeverEntered(c) /\ OnlySent(c, "invalid hello payload")
             /\ (hello[c].ft = "text" /\ hello[c].json /\ hello[c].kind # "hello")
                => NeverEntered(c) /\ OnlySent(c, "expected hello frame")

\* a binary first frame on one connection, a text that is no hello record
\* on the other
C19_Witness ==
    \E c, d \in Conns :
        /\ hello[c].ft = "binary" /\ pc[c] = "Closed" /\ out[c] = <<>>
        /\ hello[d].ft = "text" /\ ~hello[d].json /\ pc[d] = "Closed"
        /\ Len(out[d]) = 1

(***************************************************************************)
(* C20: a step in which a connection reads a binary, ping or pong frame is *)
(* taken in the command loop and changes nothing but the count of frames   *)
(* read: nothing is sent, no collaborator is called, the connection stays  *)
(* where it was with the same session id and key, and the shared state is  *)
(* as before.                                                              *)
(***************************************************************************)
ReadsIgnoredKind(c) ==
    /\ Len(rx'[c]) = Len(rx[c]) + 1
    /\ rx'[c][Len(rx'[c])].frame.ft \in {"binary", "ping", "pong"}

C20_OtherFramesAreIgnored ==
    [][\A c \in Conns :
          ReadsIgnoredKind(c)
          => /\ pc[c] = "Authenticated" /\ pc' = pc
             /\ out' = out
             /\ broken' = broken
             /\ calls' = calls
             /\ session' = session
             /\ local' = local
             /\ cfg' = cfg /\ persisted' = persisted /\ registry' = registry]_vars

\* a ping was read and left unanswered, and the command after it was served
C20_Witness ==
    \E c \in Conns :
        /\ Len(rx[c]) = 2
        /\ rx[c][1].frame.ft = "ping"
        /\ Group(c, 1) = <<>>
        /\ EnvelopeOpens(session[c].key, rx[c][2].frame)
        /\ Len(Group(c, 2)) = 1 /\ PlainOf(Group(c, 2)[1].frame).ok
        /\ \A i \in 1..Len(calls[c]) : calls[c][i].re # 1

(***************************************************************************)
(* C21.  Leaving Authenticated.                                            *)
(***************************************************************************)
\* connection c is in the command loop or inside a command of it
InCommandLoop(c) == pc[c] \notin {"AwaitHello", "Closed"}

\* this step reads a frame on connection c
ReadsFrame(c) == Len(rx'[c]) = Len(rx[c]) + 1
FrameRead(c) == rx'[c][Len(rx'[c])].frame

\* after Closed the task of connection c is gone: nothing of c changes
ClosedIsTerminal(c) ==
    pc[c] = "Closed" =>
        /\ pc'[c] = "Closed" /\ rx'[c] = rx[c] /\ out'[c] = out[c]
        /\ calls'[c] = calls[c] /\ broken'[c] = broken[c]

\* the command loop is left only by reading a close frame, a read error or
\* the end of the stream, and reading one of them leaves it
LeavesByEndFrameOnly(c) ==
    /\ InCommandLoop(c) /\ pc'[c] = "Closed" =>
            awaiting_frame(c) /\ ReadsFrame(c) /\ FrameRead(c) \in EndFrames
    /\ InCommandLoop(c) /\ ReadsFrame(c) /\ FrameRead(c) \in EndFrames =>
            pc'[c] = "Closed"

\* a reply whose send failed ends the connection: the loop handles no
\* further frame (the hello_ack arrived, so it is a reply that failed)
SendErrorCloses(c) ==
    broken[c] /\ HelloAcks(c) # {} /\ InCommandLoop(c) /\ ReadsFrame(c) =>
        pc'[c] = "Closed"

\* C21: in Authenticated a close frame or a transport error, met while
\* reading or while sending a reply, moves the connection to Closed; Closed
\* is terminal; Authenticated is left for no other reason.
C21_TransportErrorCloses ==
    [][\A c \in Conns :
          ClosedIsTerminal(c) /\ LeavesByEndFrameOnly(c) /\ SendErrorCloses(c)]_vars

(***************************************************************************)
(* The configuration and the capture registry under concurrent commands.   *)
(* SourceSpec starts where both connections have completed the handshake   *)
(* and follows upsert_source and remove_source step by step: reading the   *)
(* frame, taking the configuration lock and changing the camera list,      *)
(* persisting the snapshot and releasing the lock, and the calls into the  *)
(* capture registry.                                                       *)
(***************************************************************************)
\* commands read after the handshakes, over all connections
MaxCommands == 2

\* a camera record of the configuration file, as a former upsert left it
LoadedCamera == into_camera(SourceUpsert(Cam1, <<"n">>, TRUE, 10)).val

\* Config::load_or_create: no camera yet, or one
LoadedConfigs == {InitialConfig, [InitialConfig EXCEPT !.cameras = <<LoadedCamera>>]}

\* RecorderManager::ensure_started on a camera list of distinct source ids:
\* upsert_camera for each, by the startup task (connection 0, frame 0)
StartupHandle(cam) == JoinHandle(cam.source_id, 0, 0)
ensure_started(cameras) ==
    [registry |->
        [s \in {cameras[i].source_id : i \in 1..Len(cameras)} |->
            LET cam == cameras[CHOOSE i \in 1..Len(cameras) : cameras[i].source_id = s]
            IN runtime_entry(cam, StartupHandle(cam))],
     workers |->
        {StartupHandle(cameras[i]) : i \in {j \in 1..Len(cameras) : cameras[j].enabled}}]

\* the hello of a paired, listed device
AcceptedHello ==
    HelloText(GoodFields(StartTime), ProofFor(IdentitySecretHex, GoodFields(StartTime)))

SourceInit ==
    /\ cfg \in LoadedConfigs
    /\ persisted = cfg.cameras
    /\ registry = ensure_started(cfg.cameras).registry
    /\ workers = ensure_started(cfg.cameras).workers
    /\ pc = [c \in Conns |-> "Authenticated"]
    /\ session = [c \in Conns |-> handshake(cfg, AcceptedHello, StartTime, c).session]
    /\ hello = [c \in Conns |-> AcceptedHello]
    /\ out = [c \in Conns |->
                <<[frame |-> handshake(cfg, AcceptedHello, StartTime, c).send[1], re |-> 0]>>]
    /\ local = [c \in Conns |-> NoLocal]
    /\ broken = [c \in Conns |-> FALSE]
    /\ rx = [c \in Conns |-> <<>>]
    /\ calls = [c \in Conns |-> <<>>]
    /\ nextSid = Cardinality(Conns) + 1
    /\ nframes = Cardinality(Conns)
    /\ now = StartTime
    /\ probe = NoProbe

\* the sources a peer may upsert: those of UpsertInputs, one with a blank
\* rtspUrl, one with an empty onvifHost, and a second camera
SourceUpserts ==
    UpsertInputs
    \cup {[SourceUpsert(Cam1, <<"n">>, TRUE, 10) EXCEPT !.rtsp_url = <<" ">>],
          [SourceUpsert(Cam1, <<"n">>, TRUE, 10) EXCEPT !.onvif_host = <<>>],
          [SourceUpsert(Cam2 \o <<" ">>, <<"m">>, TRUE, 2)
              EXCEPT !.rtsp_url = <<" ", "r">>, !.onvif_host = <<"h", " ">>]}

SourcePlaintexts ==
    {[cmd |-> "upsert_source", source |-> u] : u \in SourceUpserts}
    \cup {[cmd |-> "remove_source", sourceId |-> s] : s \in {Cam1, Cam2}}

SourceFrames(c) ==
    {[ft |-> "close"]} \cup {Envelope(session[c].key, p) : p \in SourcePlaintexts}

\* the configuration mutex is held from the change of the camera list to
\* the end of persist
cfg_locked == \E c \in Conns : pc[c] = "CfgPersist"

\* socket.next() up to state.cfg.lock(): the envelope is opened and an
\* upsert_source validated by into_camera
source_frame(c) ==
    /\ pc[c] = "Authenticated"
    /\ nframes < Cardinality(Conns) + MaxCommands
    /\ \E f \in SourceFrames(c), good \in BOOLEAN :
        /\ rx' = [rx EXCEPT ![c] = Append(@, [frame |-> f, res |-> Ok(TRUE)])]
        /\ IF f \in EndFrames
           THEN /\ pc' = [pc EXCEPT ![c] = "Closed"]
                /\ UNCHANGED <<local, out, broken>>
           ELSE LET key == session[c].key
                    cmd == open_envelope(key, f).val
                    camera_cfg == into_camera(cmd.source)
                IN IF cmd.cmd = "upsert_source" /\ ~camera_cfg.ok
                   THEN /\ out' = [out EXCEPT ![c] =
                                      Delivered(c, cipher_frames(key, error_value(camera_cfg.err)),
                                                Len(rx[c]) + 1, good)]
                        /\ broken' = [broken EXCEPT ![c] = @ \/ ~good]
                        /\ UNCHANGED <<pc, local>>
                   ELSE /\ pc' = [pc EXCEPT ![c] = "CfgLock"]
                        /\ local' = [local EXCEPT ![c] =
                                        IF cmd.cmd = "upsert_source"
                                        THEN [cmd |-> "upsert_source",
                                              camera_cfg |-> camera_cfg.val,
                                              storage_root |-> cfg.storage_root]
                                        ELSE [cmd |-> "remove_source",
                                              source_id |-> cmd.sourceId,
                                              removed |-> FALSE]]
                        /\ UNCHANGED <<out, broken>>
    /\ nframes' = nframes + 1
    /\ UNCHANGED <<session, hello, calls, cfg, persisted, registry, nextSid, now, probe,
                   workers>>

\* state.cfg.lock().await and the change of guard.cameras; a remove_source
\* that changed nothing releases the lock at once
cfg_modify(c) ==
    /\ pc[c] = "CfgLock"
    /\ ~cfg_locked
    /\ LET cams == IF local[c].cmd = "upsert_source"
                   THEN upsert_cameras(cfg.cameras, local[c].camera_cfg)
                   ELSE retain_cameras(cfg.cameras, local[c].source_id)
           changed == Len(cams) # Len(cfg.cameras)
           persists == local[c].cmd = "upsert_source" \/ changed
       IN /\ cfg' = [cfg EXCEPT !.cameras = cams]
          /\ local' = [local EXCEPT ![c] =
                          IF local[c].cmd = "remove_source"
                          THEN [@ EXCEPT !.removed = changed] ELSE @]
          /\ pc' = [pc EXCEPT ![c] = IF persists THEN "CfgPersist" ELSE "RemoveRecorder"]
          /\ calls' = [calls EXCEPT ![c] =
                          Append(@, [call |-> "cfg.lock", re |-> Len(rx[c]),
                                     changed |-> changed])]
    /\ UNCHANGED <<session, out, broken, hello, rx, persisted, registry, nextSid,
                   nframes, now, probe, workers>>

\* a command that goes on to the registry whether or not persist succeeded
after_persist_unchecked(cmd, ok) ==
    IF cmd = "upsert_source" THEN "UpsertRemove" ELSE "RemoveRecorder"

\* where a command goes once persist returned
after_persist(cmd, ok) ==
    IF ~ok THEN "Authenticated"
    ELSE IF cmd = "upsert_source" THEN "UpsertRemove" ELSE "RemoveRecorder"

\* snapshot.persist(&state.cfg_path)? and the end of the guard's block; a
\* failure is the Err of handle_command, answered by send_cipher_error
cfg_persist(c) ==
    /\ pc[c] = "CfgPersist"
    /\ \E res \in Results([cmd |-> local[c].cmd]), good \in BOOLEAN :
        LET frames == IF res.ok THEN <<>>
                      ELSE cipher_frames(session[c].key, error_value(res.err))
            next == after_persist(local[c].cmd, res.ok)
        IN /\ persisted' = IF res.ok THEN cfg.cameras ELSE persisted
           /\ calls' = [calls EXCEPT ![c] =
                           Append(@, [call |-> "config.persist", re |-> Len(rx[c]),
                                      ok |-> res.ok, snapshot |-> cfg.cameras])]
           /\ out' = [out EXCEPT ![c] = Delivered(c, frames, Len(rx[c]), good)]
           /\ broken' = [broken EXCEPT ![c] = TransportAfter(c, frames, good)]
           /\ pc' = [pc EXCEPT ![c] = next]
           /\ local' = [local EXCEPT ![c] = IF next = "Authenticated" THEN NoLocal ELSE @]
    /\ UNCHANGED <<session, hello, rx, cfg, registry, nextSid, nframes, now, probe,
                   workers>>

SourceNext ==
    \E c \in Conns :
        \/ source_frame(c)
        \/ cfg_modify(c)
        \/ cfg_persist(c)
        \/ upsert_camera_remove(c)
        \/ upsert_camera_insert(c)
        \/ remove_source_recorder(c)

SourceSpec == SourceInit /\ [][SourceNext]_vars

(***************************************************************************)
(* C22.  Validation and normalisation of upsert_source.                    *)
(***************************************************************************)
\* the command of inbound frame number i of connection c, when it has one
CommandAt(c, i) == open_envelope(session[c].key, rx[c][i].frame)
IsUpsertAt(c, i) ==
    /\ rx[c][i].frame.ft = "text"
    /\ CommandAt(c, i).ok
    /\ CommandAt(c, i).val.cmd = "upsert_source"
UpsertAt(c, i) == CommandAt(c, i).val.source

\* a required field of the source is empty once trimmed
BlankField(u) ==
    Trim(u.source_id) = <<>> \/ Trim(u.rtsp_url) = <<>> \/ Trim(u.onvif_host) = <<>>

\* camera record cam is what the claim says an accepted upsert u stores
StoredAs(u, cam) ==
    /\ cam.source_id = Trim(u.source_id)
    /\ cam.rtsp_url = Trim(u.rtsp_url)
    /\ cam.onvif_host = Trim(u.onvif_host)
    /\ cam.segment_secs >= u.segment_secs /\ cam.segment_secs >= 2
    /\ cam.segment_secs \in {u.segment_secs, 2}
    /\ Trim(u.name) = <<>> => cam.name = Trim(u.source_id)

\* an encrypted {ok:false} reply under the key of connection c
IsErrorReply(c, fr) ==
    IsCipher(fr) /\ SealedUnder(fr, session[c].key) /\ ~PlainOf(fr).ok

\* this step reads, on connection c, an upsert_source with a blank field
ReadsBlankUpsert(c) ==
    /\ ReadsFrame(c)
    /\ FrameRead(c).ft = "text"
    /\ open_envelope(session[c].key, FrameRead(c)).ok
    /\ open_envelope(session[c].key, FrameRead(c)).val.cmd = "upsert_source"
    /\ BlankField(open_envelope(session[c].key, FrameRead(c)).val.source)

\* this step ends the persist of an upsert_source of connection c with success
PersistsUpsert(c) ==
    pc[c] = "CfgPersist" /\ local[c].cmd = "upsert_source" /\ pc'[c] = "UpsertRemove"

\* C22: an upsert_source with an empty sourceId, rtspUrl or onvifHost (after
\* trimming) gets one encrypted error reply and changes neither the
\* configuration, the persisted file nor the capture registry, and the
\* connection stays open; an accepted upsert stores the trimmed sourceId,
\* rtspUrl and onvifHost, segmentSecs = max(given, 2), and the trimmed
\* sourceId as name when the given name is blank.
C22_UpsertValidation ==
    [][\A c \in Conns :
          /\ ReadsBlankUpsert(c) =>
                /\ cfg' = cfg /\ persisted' = persisted
                /\ registry' = registry /\ workers' = workers
                /\ calls'[c] = calls[c]
                /\ pc'[c] = "Authenticated"
                /\ Len(out'[c]) <= Len(out[c]) + 1
                /\ ~broken'[c] => Len(out'[c]) = Len(out[c]) + 1
                /\ Len(out'[c]) = Len(out[c]) + 1 =>
                      /\ SubSeq(out'[c], 1, Len(out[c])) = out[c]
                      /\ out'[c][Len(out'[c])].re = Len(rx'[c])
                      /\ IsErrorReply(c, out'[c][Len(out'[c])].frame)
          /\ PersistsUpsert(c) =>
                LET u == UpsertAt(c, Len(rx[c]))
                IN /\ ~BlankField(u)
                   /\ \E i \in 1..Len(cfg'.cameras) : StoredAs(u, cfg'.cameras[i])
                   /\ \E i \in 1..Len(persisted') : StoredAs(u, persisted'[i])]_vars

\* both cases in one run: an upsert with a blank rtspUrl was answered by an
\* error and the connection is open, and an upsert with a padded sourceId,
\* a blank name and segmentSecs 1 is in the persisted file
C22_Witness ==
    /\ \E c \in Conns : \E i \in 1..Len(rx[c]) :
          /\ IsUpsertAt(c, i)
          /\ Trim(UpsertAt(c, i).source_id) # <<>>
          /\ Trim(UpsertAt(c, i).rtsp_url) = <<>>
          /\ Len(Group(c, i)) = 1
          /\ pc[c] = "Authenticated"
    /\ \E c \in Conns : \E i \in 1..Len(rx[c]) :
          /\ IsUpsertAt(c, i)
          /\ UpsertAt(c, i).source_id # Trim(UpsertAt(c, i).source_id)
          /\ Trim(UpsertAt(c, i).name) = <<>>
          /\ UpsertAt(c, i).segment_secs < 2
          /\ \E k \in 1..Len(persisted) :
                persisted[k].source_id = Cam1 /\ persisted[k].name = Cam1
                /\ persisted[k].segment_secs = 2

(***************************************************************************)
(* C23.  A persist that fails.                                             *)
(***************************************************************************)
\* C23: whenever the configuration lock is free, the in-memory camera list
\* is the camera list of the last snapshot persisted successfully (or of the
\* loaded configuration); a command whose persist fails leaves the
\* in-memory configuration as it was before the command.
C23_NoPartialPersistence == ~cfg_locked => cfg.cameras = persisted

(***************************************************************************)
(* C24.  Success only after persistence.                                   *)
(***************************************************************************)
\* the calls of connection c for its inbound frame number i
CallsFor(c, i) == SelectSeq(calls[c], LAMBDA e : e.re = i)

\* the persist of that command succeeded, with a snapshot satisfying ok_snapshot
PersistedWith(c, i, ok_snapshot(_)) ==
    \E k \in 1..Len(calls[c]) :
        /\ calls[c][k].re = i
        /\ calls[c][k].call = "config.persist"
        /\ calls[c][k].ok
        /\ ok_snapshot(calls[c][k].snapshot)

\* the command of frame i changed (or set) the camera list under the lock
ChangedConfig(c, i) ==
    \E k \in 1..Len(calls[c]) :
        /\ calls[c][k].re = i
        /\ calls[c][k].call = "cfg.lock"
        /\ IsUpsertAt(c, i) \/ calls[c][k].changed

HasCamera(cameras, cam) == \E k \in 1..Len(cameras) : cameras[k] = cam
HasSource(cameras, source_id) == \E k \in 1..Len(cameras) : cameras[k].source_id = source_id

IsSuccessReply(c, fr, tag) ==
    /\ IsCipher(fr) /\ SealedUnder(fr, session[c].key)
    /\ PlainOf(fr).ok /\ PlainOf(fr).cmd = tag

\* C24: a success reply to upsert_source, or to a remove_source that changed
\* the configuration, is sent only after a full snapshot containing that
\* change was persisted successfully, and the capture registry is updated
\* only after that persistence.
C24_SuccessOnlyAfterPersist ==
    \A c \in Conns :
        /\ \A n \in 1..Len(out[c]) :
              LET fr == out[c][n].frame
                  i == out[c][n].re
              IN /\ IsSuccessReply(c, fr, "upsert_source") =>
                        PersistedWith(c, i, LAMBDA snap : HasCamera(snap, PlainOf(fr).source))
                 /\ IsSuccessReply(c, fr, "remove_source") /\ ChangedConfig(c, i) =>
                        PersistedWith(c, i,
                                      LAMBDA snap : ~HasSource(snap, PlainOf(fr).sourceId))
        /\ \A k \in 1..Len(calls[c]) :
              /\ calls[c][k].call \in {"recorder.upsert_camera", "recorder.remove_camera"}
              /\ ChangedConfig(c, calls[c][k].re)
              => \E j \in 1..(k - 1) :
                    /\ calls[c][j].re = calls[c][k].re
                    /\ calls[c][j].call = "config.persist"
                    /\ calls[c][j].ok

\* an upsert_source and a remove_source that changed the configuration were
\* both answered with success
C24_Witness ==
    /\ \E c \in Conns : \E n \in 1..Len(out[c]) :
          IsSuccessReply(c, out[c][n].frame, "upsert_source")
    /\ \E c \in Conns : \E n \in 1..Len(out[c]) :
          /\ IsSuccessReply(c, out[c][n].frame, "remove_source")
          /\ ChangedConfig(c, out[c][n].re)

(***************************************************************************)
(* C25.  Commands of different connections on the configuration.           *)
(***************************************************************************)
\* the commands that took the configuration lock, as <<connection, frame>>
Entered ==
    {e \in UNION {{<<c, i>> : i \in 1..Len(rx[c])} : c \in Conns} :
        \E k \in 1..Len(calls[e[1]]) :
            calls[e[1]][k].re = e[2] /\ calls[e[1]][k].call = "cfg.lock"}

\* those of them that were answered {ok:true}
RepliedSuccess ==
    {e \in Entered :
        \E n \in 1..Len(out[e[1]]) :
            /\ out[e[1]][n].re = e[2]
            /\ IsCipher(out[e[1]][n].frame)
            /\ PlainOf(out[e[1]][n].frame).ok}

\* what the command does to a camera list when it runs alone
apply_command(cameras, cmd) ==
    IF cmd.cmd = "upsert_source"
    THEN upsert_cameras(cameras, into_camera(cmd.source).val)
    ELSE retain_cameras(cameras, cmd.sourceId)

\* the ways to run the commands S one after the other
Orders(S) ==
    {o \in [1..Cardinality(S) -> S] : \A a, b \in DOMAIN o : a # b => o[a] # o[b]}

RECURSIVE RunInOrder(_, _)
RunInOrder(cameras, order) ==
    IF order = <<>> THEN cameras
    ELSE RunInOrder(apply_command(cameras, CommandAt(order[1][1], order[1][2]).val),
                    Tail(order))

\* at most one command is inside its read-modify-persist sequence
CriticalSectionsExclusive == Cardinality({c \in Conns : pc[c] = "CfgPersist"}) <= 1

\* the in-memory camera list is what the commands that took the lock give
\* when run one after the other, in some order, on the loaded configuration
Serialisable ==
    \E start \in LoadedConfigs : \E o \in Orders(Entered) :
        RunInOrder(start.cameras, o) = cfg.cameras

\* the persisted camera list is what some of the commands give when run one
\* after the other, every command that replied success among them
NoLostUpdate ==
    \E start \in LoadedConfigs : \E S \in SUBSET Entered :
        /\ RepliedSuccess \subseteq S
        /\ \E o \in Orders(S) : RunInOrder(start.cameras, o) = persisted

\* C25: the read-modify-persist sequences of upsert_source and remove_source
\* of different connections never overlap, the configuration is the result
\* of running the commands in some sequential order, and the last persisted
\* snapshot reflects every command that replied success.
C25_SerialisedNoLostUpdate ==
    CriticalSectionsExclusive /\ Serialisable /\ NoLostUpdate

(***************************************************************************)
(* C26.  One capture worker per source.                                    *)
(***************************************************************************)
\* C26: at every moment at most one capture worker task is alive per source
\* id, also when two upsert_camera calls for the same source run
\* concurrently, and every worker that is not in the registry (any more)
\* has been aborted.
C26_OneWorkerPerSource ==
    \A w \in workers :
        /\ \A v \in workers : v.source_id = w.source_id => v = w
        /\ w.source_id \in DOMAIN registry
        /\ registry[w.source_id].handle = w

(***************************************************************************)
(* C27.  What remove_camera returns.                                       *)
(***************************************************************************)
\* the calls of remove_camera made so far (by remove_source, and inside
\* upsert_camera), each with what it returned and whether it stopped a worker
RemoveCameraCalls ==
    UNION {{calls[c][k] : k \in {j \in 1..Len(calls[c]) :
                                    calls[c][j].call \in {"recorder.remove_camera",
                                                          "recorder.upsert_camera"}}} :
           c \in Conns}

\* C27 as stated: remove_camera returns true exactly when the call stopped a
\* running capture worker of the source, and false otherwise (unknown
\* source, or a source registered without a running worker).
C27_TrueIffWorkerStopped ==
    \A e \in RemoveCameraCalls : e.returned <=> e.stopped

\* this step is a call of remove_camera by connection c, for source source_id
CallsRemoveCamera(c, source_id) ==
    /\ Len(calls'[c]) = Len(calls[c]) + 1
    /\ \/ pc[c] = "RemoveRecorder" /\ source_id = local[c].source_id
       \/ pc[c] = "UpsertRemove" /\ source_id = local[c].camera_cfg.source_id

\* C27, amended: remove_camera returns true exactly when the registry held
\* an entry of the source, which the call took out, whether or not the
\* entry had a running worker; it stopped a worker exactly when the entry
\* had one alive, and then it returns true.
C27_TrueIffEntryRemoved ==
    [][\A c \in Conns : \A source_id \in {Cam1, Cam2} :
          CallsRemoveCamera(c, source_id) =>
              LET e == calls'[c][Len(calls'[c])]
              IN /\ e.returned <=> source_id \in DOMAIN registry
                 /\ source_id \notin DOMAIN registry'
                 /\ e.stopped <=> /\ source_id \in DOMAIN registry
                                  /\ registry[source_id].handle \in workers
                 /\ e.stopped <=> workers' # workers
                 /\ e.stopped => e.returned]_vars

\* remove_source removed a source that was registered without a worker
\* (a disabled camera), and remove_camera returned true
C27_Witness ==
    \E e \in RemoveCameraCalls :
        e.call = "recorder.remove_camera" /\ e.returned /\ ~e.stopped

(***************************************************************************)
(* storage.rs: the segment store over a file system.  StorageSpec draws a  *)
(* file system and one request and applies list_sources, list_segments or  *)
(* read_segment to it, together with the reply handle_command makes of the *)
(* result.                                                                 *)
(***************************************************************************)
MAGIC_LEN == 5
StorageKey == Bytes("storage-key", SESSION_KEY_LEN)

\* file names, as stem and extension
FileName(stem, ext) == [stem |-> stem, ext |-> ext]
ends_with(name, ext) == name.ext = ext

\* what a segment file holds: the bytes an encoder wrote, or MAGIC, a nonce
\* and a ciphertext as encrypt_pass writes them
PlainContent(data) == [blob |-> FALSE, data |-> data, len |-> data.len]
BlobContent(key, data, intact) ==
    [blob |-> TRUE, magic |-> TRUE, nonce |-> Bytes("n1", NONCE_LEN),
     cipher |-> [Sealed(key, Bytes("n1", NONCE_LEN), data) EXCEPT !.intact = intact],
     len |-> MAGIC_LEN + NONCE_LEN + data.len + 16]

\* the entries a source directory may hold, with distinct modification
\* times: a plain segment, an encrypted one, an encrypted one that was
\* damaged, a file that is no segment, and a directory named like a segment
DirEntries ==
    {[name |-> FileName("seg", "mp4"), kind |-> "file", modified |-> 20,
      content |-> PlainContent(Bytes("seg", 1))],
     [name |-> FileName("old", "cnv"), kind |-> "file", modified |-> 10,
      content |-> BlobContent(StorageKey, Bytes("old", 2), TRUE)],
     [name |-> FileName("bad", "cnv"), kind |-> "file", modified |-> 30,
      content |-> BlobContent(StorageKey, Bytes("bad", 2), FALSE)],
     [name |-> FileName("notes", "txt"), kind |-> "file", modified |-> 40,
      content |-> PlainContent(Bytes("txt", 3))],
     [name |-> FileName("sub", "mp4"), kind |-> "dir", modified |-> 50,
      content |-> PlainContent(Bytes("", 0))]}

\* a directory: missing, unreadable, or present with its entries
MissingDir == [state |-> "missing", entries |-> {}]
Directories ==
    {MissingDir, [state |-> "denied", entries |-> {}]}
    \cup {[state |-> "present", entries |-> es] : es \in SUBSET DirEntries}

\* the tree under <root>/segments: the directory itself (state), whether a
\* stray file lies in it, and the directories of the two sources
FileSystems ==
    {[state |-> s, stray |-> FALSE, src |-> [id \in {Cam1, Cam2} |-> MissingDir]] :
        s \in {"missing", "denied"}}
    \cup {[state |-> "present", stray |-> stray, src |-> (Cam1 :> d1) @@ (Cam2 :> d2)] :
            stray \in BOOLEAN, d1 \in Directories,
            d2 \in {MissingDir, [state |-> "present", entries |-> {}]}}

\* the order of String::cmp on the characters in use
CharRank(ch) == CASE ch = " " -> 0 [] ch = "1" -> 1 [] ch = "2" -> 2 [] OTHER -> 3
RECURSIVE LexLess(_, _)
LexLess(a, b) ==
    IF b = <<>> THEN FALSE
    ELSE IF a = <<>> THEN TRUE
    ELSE IF Head(a) # Head(b) THEN CharRank(Head(a)) < CharRank(Head(b))
    ELSE LexLess(Tail(a), Tail(b))

\* out.sort() of list_sources: the names in ascending order
RECURSIVE SortedNames(_)
SortedNames(S) ==
    IF S = {} THEN <<>>
    ELSE LET first == CHOOSE x \in S : \A y \in S \ {x} : LexLess(x, y)
         IN <<first>> \o SortedNames(S \ {first})

\* out.sort_by of list_segments: the entries, the latest modified first
RECURSIVE SortedLatestFirst(_)
SortedLatestFirst(S) ==
    IF S = {} THEN <<>>
    ELSE LET first == CHOOSE x \in S : \A y \in S \ {x} : x.modified > y.modified
         IN <<first>> \o SortedLatestFirst(S \ {first})

\* StorageManager::list_sources
list_sources(fs) ==
    IF fs.state # "present" THEN Err("read_dir root/segments")
    ELSE Ok(SortedNames({id \in DOMAIN fs.src : fs.src[id].state # "missing"}))

\* list_segments that fails when the source has no directory
list_segments_strict(fs, source_id, limit) ==
    LET dir == IF fs.state = "present" THEN fs.src[source_id] ELSE fs
    IN IF dir.state # "present" THEN Err("read_dir")
       ELSE LET segs == {e \in dir.entries :
                            e.kind = "file"
                            /\ (ends_with(e.name, "cnv") \/ ends_with(e.name, "mp4"))}
                sorted == SortedLatestFirst(segs)
                keep == IF limit > 1 THEN limit ELSE 1
            IN Ok([i \in 1..(IF Len(sorted) < keep THEN Len(sorted) ELSE keep) |->
                      [name |-> sorted[i].name, bytes |-> sorted[i].content.len,
                       modified_unix |-> sorted[i].modified]])

\* StorageManager::list_segments
list_segments(fs, source_id, limit) ==
    LET dir == IF fs.state = "present" THEN fs.src[source_id] ELSE fs
    IN IF dir.state = "missing" THEN Ok(<<>>)
       ELSE IF dir.state = "denied" THEN Err("read_dir")
       ELSE LET segs == {e \in dir.entries :
                            e.kind = "file"
                            /\ (ends_with(e.name, "cnv") \/ ends_with(e.name, "mp4"))}
                sorted == SortedLatestFirst(segs)
                keep == IF limit > 1 THEN limit ELSE 1
            IN Ok([i \in 1..(IF Len(sorted) < keep THEN Len(sorted) ELSE keep) |->
                      [name |-> sorted[i].name, bytes |-> sorted[i].content.len,
                       modified_unix |-> sorted[i].modified]])

\* decrypt_blob
decrypt_blob(key, content) ==
    IF content.len < MAGIC_LEN + NONCE_LEN THEN Err("encrypted blob too short")
    ELSE IF ~content.blob THEN Err("invalid encrypted blob magic")
    ELSE decrypt_payload(key, content.nonce, content.cipher)

\* StorageManager::read_segment
read_segment(fs, source_id, name) ==
    LET dir == IF fs.state = "present" THEN fs.src[source_id] ELSE fs
        hits == {e \in dir.entries : e.name = name}
    IN IF dir.state # "present" \/ hits = {} THEN Err("read segment")
       ELSE LET e == CHOOSE x \in hits : TRUE
            IN IF e.kind # "file" THEN Err("read segment")
               ELSE IF ends_with(name, "cnv") THEN decrypt_blob(StorageKey, e.content)
               ELSE Ok(e.content.data)

\* the requests: each function on each file system
StorageProbes ==
    {[fn |-> "list_sources", done |-> FALSE, fs |-> fs] : fs \in FileSystems}
    \cup {[fn |-> "list_segments", done |-> FALSE, fs |-> fs, source_id |-> id,
           limit |-> n] : fs \in FileSystems, id \in {Cam1, Cam2}, n \in {0, 1, 30}}
    \cup {[fn |-> "read_segment", done |-> FALSE, fs |-> fs, source_id |-> id,
           name |-> FileName(stem, ext)] :
            fs \in FileSystems, id \in {Cam1, Cam2},
            stem \in {"seg", "old", "bad", "sub", "gone"}, ext \in {"mp4", "cnv"}}

StorageInit == ProbeInit(StorageProbes)

\* the value handle_ws sends for the outcome r of handle_command
reply_value(r) == IF r.kind = "error" THEN error_value(r.error) ELSE r.value

\* the function is called by its command, and the command makes its reply
apply_storage ==
    /\ probe.fn \in {"list_sources", "list_segments", "read_segment"}
    /\ ~probe.done
    /\ LET b == Outcome(cfg, persisted)
           res == CASE probe.fn = "list_sources" -> list_sources(probe.fs)
                    [] probe.fn = "list_segments" ->
                          list_segments(probe.fs, probe.source_id, probe.limit)
                    [] probe.fn = "read_segment" ->
                          read_segment(probe.fs, probe.source_id, probe.name)
           r == CASE probe.fn = "list_sources" -> list_sources_cmd(b, res)
                  [] probe.fn = "list_segments" ->
                        list_segments_cmd(b, [cmd |-> "list_segments",
                                              sourceId |-> probe.source_id,
                                              limit |-> probe.limit], res)
                  [] probe.fn = "read_segment" ->
                        get_segment_cmd(b, [cmd |-> "get_segment",
                                            sourceId |-> probe.source_id,
                                            name |-> probe.name], res)
       IN probe' = [probe EXCEPT !.done = TRUE] @@ [result |-> res, reply |-> reply_value(r)]
    /\ UNCHANGED conn_vars

StorageNext == apply_storage

StorageSpec == StorageInit /\ [][StorageNext]_vars

(***************************************************************************)
(* C28.  Missing data in the segment store.                                *)
(***************************************************************************)
\* the directory a request about a source reads
RequestedDir(p) == IF p.fs.state = "present" THEN p.fs.src[p.source_id] ELSE p.fs

\* the data the request asks for is not there: the segments directory for
\* list_sources, the directory of the source for list_segments, the file
\* for read_segment
DataMissing(p) ==
    CASE p.fn = "list_sources" -> p.fs.state = "missing"
      [] p.fn = "list_segments" -> RequestedDir(p).state = "missing"
      [] p.fn = "read_segment" ->
            \/ RequestedDir(p).state = "missing"
            \/ /\ RequestedDir(p).state = "present"
               /\ \A e \in RequestedDir(p).entries : e.name # p.name

StorageDone == probe.fn \in {"list_sources", "list_segments", "read_segment"} /\ probe.done

MaxAttempt == 12

WideAttempts == {255, 65535, 2147483647}

Attempts == 0..MaxAttempt \cup WideAttempts

clamp(v, lo, hi) == IF v < lo THEN lo ELSE IF v > hi THEN hi ELSE v

RECURSIVE pow(_, _)
pow(b, e) == IF e = 0 THEN 1 ELSE b * pow(b, e - 1)

min(a, b) == IF a <= b THEN a ELSE b

backoff_secs_uncapped(attempt) == pow(2, clamp(attempt, 1, 6))

backoff_secs(attempt) ==
    LET p == clamp(attempt, 1, 6)
        secs == pow(2, p)
    IN min(secs, 30)

BackoffProbes ==
    {[fn |-> "backoff_secs", done |-> FALSE, attempt |-> a, attempt2 |-> b] :
        a \in Attempts, b \in Attempts}

BackoffInit == ProbeInit(BackoffProbes)

apply_backoff ==
    /\ probe.fn = "backoff_secs" /\ ~probe.done
    /\ probe' = [probe EXCEPT !.done = TRUE] @@
                [backoff |-> backoff_secs(probe.attempt),
                 backoff2 |-> backoff_secs(probe.attempt2)]
    /\ UNCHANGED conn_vars

BackoffNext == apply_backoff

BackoffSpec == BackoffInit /\ [][BackoffNext]_vars

BackoffDone == probe.fn = "backoff_secs" /\ probe.done

BackoffTable(attempt) ==
    CASE attempt <= 1 -> 2
      [] attempt = 2 -> 4
      [] attempt = 3 -> 8
      [] attempt = 4 -> 16
      [] OTHER -> 30

(***************************************************************************)
(* C30: backoff_secs(attempt) is min(2^clamp(attempt,1,6), 30) for every   *)
(* attempt: 2 for attempt 0 and 1, doubling up to 16 at attempt 4, 30 for  *)
(* every attempt of 5 or more; it never decreases when the attempt count   *)
(* grows and always lies between 2 and 30.                                 *)
(***************************************************************************)
C30_BackoffSecs ==
    BackoffDone =>
        /\ probe.backoff = BackoffTable(probe.attempt)
        /\ probe.backoff2 = BackoffTable(probe.attempt2)
        /\ probe.attempt <= probe.attempt2 => probe.backoff <= probe.backoff2
        /\ probe.backoff >= 2 /\ probe.backoff <= 30

C30_Witness ==
    /\ BackoffDone
    /\ probe.attempt = 4 /\ probe.backoff = 16
    /\ probe.attempt2 \in WideAttempts /\ probe.backoff2 = 30


(***************************************************************************)
(* Two runs of the service that differ only in their secrets.              *)
(* SecretsSpec gives the same input to both runs: a first frame to two     *)
(* configurations that differ in the pairing secret and the responder      *)
(* secret, an inbound frame to two command loops that hold different       *)
(* session keys, and a stored segment to two storage keys.  Each run       *)
(* records the check that ended it (its decision) and the diagnostic       *)
(* strings it sent.                                                        *)
(***************************************************************************)
\* config.json may hold any non-empty text as a secret (apply_defaults
\* fills empty fields only): secrets of 32 bytes, of other lengths, and text
\* that is not hex
PairingSecrets ==
    {IdentitySecretHex, Encoded(Bytes("pairing-secret-2", SECRET_LEN)),
     Encoded(Bytes("pairing-secret", SECRET_LEN - 1)),
     Encoded(Bytes("pairing-secret", SECRET_LEN + 1)), Undecodable("pairing")}

ResponderSecrets ==
    {ServerSecretHex, Encoded(Bytes("responder-secret-2", SECRET_LEN)),
     Encoded(Bytes("responder-secret", SECRET_LEN + 1)), Undecodable("responder")}

UsableSecrets(S) == {s \in S : parse_hex_exact(s, SECRET_LEN).ok}

SecretConfigs ==
    {[InitialConfig EXCEPT !.api.identity_secret_hex = p, !.api.server_secret_hex = r] :
        p \in PairingSecrets, r \in ResponderSecrets}

\* StorageManager::new refuses a key that is not 32 bytes, so a running
\* service holds a usable one
StorageKeys == {StorageKey, Bytes("storage-key-2", SESSION_KEY_LEN)}

\* the session keys of accepted handshakes
SessionKeys ==
    {derive_session_key(r, p, GoodFields(StartTime).client_key,
                        session_context(IdentityId, 1)).val.session_key :
        p \in UsableSecrets(PairingSecrets), r \in UsableSecrets(ResponderSecrets)}

\* stored files: sealed under either storage key, damaged, too short, and
\* long enough without the magic
StoredBlobs ==
    {BlobContent(k, Bytes("old", 2), i) : k \in StorageKeys, i \in BOOLEAN}
    \cup {PlainContent(Bytes("cut", MAGIC_LEN)),
          PlainContent(Bytes("raw", MAGIC_LEN + NONCE_LEN + 1))}

SecretsProbes ==
    {[fn |-> "handle_ws", done |-> FALSE, a |-> a, b |-> b, frame |-> f] :
        a \in SecretConfigs, b \in SecretConfigs,
        f \in UNION {AnyFirstFrames(p) : p \in UsableSecrets(PairingSecrets)}}
    \cup UNION {{[fn |-> "open_envelope", done |-> FALSE, a |-> ab[1], b |-> ab[2],
                  frame |-> f] : f \in TextFrames(ab[1], {ab[2]})} :
                ab \in SessionKeys \X SessionKeys}
    \cup {[fn |-> "decrypt_blob", done |-> FALSE, a |-> a, b |-> b, frame |-> f] :
             a \in StorageKeys, b \in StorageKeys, f \in StoredBlobs}

SecretsInit == ProbeInit(SecretsProbes)

\* the error strings of the plaintext frames among frames
PlainDiagnostics(frames) ==
    LET errors == SelectSeq(frames, LAMBDA x : x.type = "plain")
    IN [i \in 1..Len(errors) |-> errors[i].body.error]

\* the error string of a result, as send_cipher_error puts it in its reply
CipherDiagnostics(res) == IF res.ok THEN <<>> ELSE <<error_value(res.err).error>>

\* the check of handle_ws that ends the handshake on first frame f
HelloDecision(cfgv, f, nowv, uuid) ==
    LET pks == cfgv.api.authorized_device_pks
    IN IF f.ft # "text" THEN "no text frame"
       ELSE IF ~f.json THEN "payload"
       ELSE IF f.kind # "hello" THEN "kind"
       ELSE IF f.identity_id # cfgv.api.identity_id THEN "identity"
       ELSE IF pks # <<>> /\ ~(\E i \in 1..Len(pks) : pks[i] = f.device_pk) THEN "device"
       ELSE IF abs_diff(nowv, f.ts) > MAX_SKEW THEN "skew"
       ELSE IF ~validate_hello(cfgv, f, nowv).ok THEN "proof"
       ELSE IF ~handshake(cfgv, f, nowv, uuid).accepted THEN "key derivation"
       ELSE "accepted"

\* the step of the envelope decoding that refuses frame f
EnvelopeDecision(key, f) ==
    IF ~f.json THEN "payload"
    ELSE IF f.kind # "cipher" THEN "kind"
    ELSE IF ~b64_decode(f.nonce).ok THEN "nonce encoding"
    ELSE IF b64_decode(f.nonce).val.len # NONCE_LEN THEN "nonce length"
    ELSE IF ~b64_decode(f.data).ok THEN "data"
    ELSE IF ~decrypt_payload(key, b64_decode(f.nonce).val, b64_decode(f.data).val).ok
         THEN "decrypt"
    ELSE IF ~open_envelope(key, f).ok THEN "command"
    ELSE "accepted"

\* the step of decrypt_blob that refuses a stored file
BlobDecision(key, content) ==
    IF content.len < MAGIC_LEN + NONCE_LEN THEN "length"
    ELSE IF ~content.blob THEN "magic"
    ELSE IF ~decrypt_blob(key, content).ok THEN "decrypt"
    ELSE "accepted"

run_handshakes ==
    /\ probe.fn = "handle_ws" /\ ~probe.done
    /\ LET ra == handshake(probe.a, probe.frame, now, nextSid)
           rb == handshake(probe.b, probe.frame, now, nextSid)
       IN probe' = [probe EXCEPT !.done = TRUE] @@
                   [decision_a |-> HelloDecision(probe.a, probe.frame, now, nextSid),
                    decision_b |-> HelloDecision(probe.b, probe.frame, now, nextSid),
                    diagnostics_a |-> PlainDiagnostics(ra.send),
                    diagnostics_b |-> PlainDiagnostics(rb.send)]
    /\ UNCHANGED conn_vars

run_envelopes ==
    /\ probe.fn = "open_envelope" /\ ~probe.done
    /\ probe' = [probe EXCEPT !.done = TRUE] @@
                [decision_a |-> EnvelopeDecision(probe.a, probe.frame),
                 decision_b |-> EnvelopeDecision(probe.b, probe.frame),
                 diagnostics_a |-> CipherDiagnostics(open_envelope(probe.a, probe.frame)),
                 diagnostics_b |-> CipherDiagnostics(open_envelope(probe.b, probe.frame))]
    /\ UNCHANGED conn_vars

run_segments ==
    /\ probe.fn = "decrypt_blob" /\ ~probe.done
    /\ probe' = [probe EXCEPT !.done = TRUE] @@
                [decision_a |-> BlobDecision(probe.a, probe.frame),
                 decision_b |-> BlobDecision(probe.b, probe.frame),
                 diagnostics_a |-> CipherDiagnostics(decrypt_blob(probe.a, probe.frame)),
                 diagnostics_b |-> CipherDiagnostics(decrypt_blob(probe.b, probe.frame))]
    /\ UNCHANGED conn_vars

SecretsNext == run_handshakes \/ run_envelopes \/ run_segments

SecretsSpec == SecretsInit /\ [][SecretsNext]_vars

SecretsDone == probe.fn \in {"handle_ws", "open_envelope", "decrypt_blob"} /\ probe.done

(***************************************************************************)
(* C29: no diagnostic string sent to a peer depends on the pairing secret, *)
(* the responder secret, the storage key, a derived session key or the     *)
(* expected proof: two runs that differ only in those secrets and take the *)
(* same accept/reject decisions send identical diagnostics.                *)
(***************************************************************************)
C29_DiagnosticsIndependentOfSecrets ==
    SecretsDone /\ probe.decision_a = probe.decision_b
        => probe.diagnostics_a = probe.diagnostics_b


(***************************************************************************)
(* C31: when no command is in progress, the capture registry holds an      *)
(* entry for exactly the source ids of the configured cameras, and each    *)
(* entry was started with the camera record currently stored for that      *)
(* source id, after any interleaving of upsert_source and remove_source    *)
(* commands from several connections.                                      *)
(***************************************************************************)
NoCommandInProgress == \A c \in Conns : pc[c] \in {"Authenticated", "Closed"}

ConfiguredIds == {cfg.cameras[i].source_id : i \in 1..Len(cfg.cameras)}

C31_RegistryMatchesConfig ==
    NoCommandInProgress =>
        /\ DOMAIN registry = ConfiguredIds
        /\ \A i \in 1..Len(cfg.cameras) :
              registry[cfg.cameras[i].source_id].cam = cfg.cameras[i]


(***************************************************************************)
(* C32: starting from cameras with distinct source ids, the camera list    *)
(* holds at most one record per source id after any sequence of            *)
(* upsert_source and remove_source commands from any connection: an upsert *)
(* of a known id replaces its record in place, an upsert of a new id       *)
(* appends one record, and a remove deletes every record of that id.       *)
(***************************************************************************)
DistinctIds(cameras) ==
    \A i, j \in 1..Len(cameras) : cameras[i].source_id = cameras[j].source_id => i = j

\* connection c changes the camera list in this step
ModifiesCameras(c) == pc[c] = "CfgLock" /\ pc'[c] # "CfgLock"

ReplacedInPlace(before, after, cam) ==
    /\ Len(after) = Len(before)
    /\ \A i \in 1..Len(before) :
          after[i] = IF before[i].source_id = cam.source_id THEN cam ELSE before[i]

C32_OneRecordPerSource ==
    [][/\ DistinctIds(cfg.cameras) /\ DistinctIds(cfg.cameras')
       /\ (\A c \in Conns : ~ModifiesCameras(c)) => cfg.cameras' = cfg.cameras
       /\ \A c \in Conns :
             IF ~ModifiesCameras(c) THEN TRUE
             ELSE IF local[c].cmd = "upsert_source"
             THEN IF local[c].camera_cfg.source_id \in ConfiguredIds
                  THEN ReplacedInPlace(cfg.cameras, cfg.cameras', local[c].camera_cfg)
                  ELSE cfg.cameras' = Append(cfg.cameras, local[c].camera_cfg)
             ELSE /\ ~HasSource(cfg.cameras', local[c].source_id)
                  /\ \A i \in 1..Len(cfg.cameras) :
                        cfg.cameras[i].source_id # local[c].source_id
                            => HasCamera(cfg.cameras', cfg.cameras[i])
                  /\ Len(cfg.cameras') <= Len(cfg.cameras)]_vars

\* a known source was replaced in place and a new one appended after it
C32_Witness ==
    /\ Len(cfg.cameras) = 2
    /\ cfg.cameras[1].source_id = Cam1 /\ cfg.cameras[1] # LoadedCamera
    /\ cfg.cameras[2].source_id = Cam2
    /\ \E c \in Conns : \E i, j \in 1..Len(calls[c]) :
          i < j /\ calls[c][i].call = "cfg.lock" /\ calls[c][j].call = "cfg.lock"


(***************************************************************************)
(* The hello proof on two tuples.  TupleSpec computes the proof of one     *)
(* tuple and verifies it against every other tuple of ProofFields, under   *)
(* the pairing secret.                                                     *)
(***************************************************************************)
TupleProbes ==
    {[fn |-> "hello_proof", done |-> FALSE, secret |-> IdentitySecretHex, signed |-> f,
      shown |-> g, upper |-> u] : f \in ProofFields, g \in ProofFields, u \in BOOLEAN}

TupleInit == ProbeInit(TupleProbes)

TupleSpec == TupleInit /\ [][ProofNext]_vars

MaterialOf(f) == hello_material(f.identity_id, f.device_pk, Undecodable(f.client_key), f.ts)

(***************************************************************************)
(* C33: the message authenticated by the hello proof determines the tuple  *)
(* (identityId, devicePk, clientKey, ts): two different tuples never       *)
(* produce the same message, so a proof computed for one tuple never       *)
(* verifies for a different tuple under the same secret.                   *)
(***************************************************************************)
C33_MessageDeterminesTuple ==
    probe.fn = "hello_proof" /\ probe.done /\ probe.signed # probe.shown
        => /\ MaterialOf(probe.signed) # MaterialOf(probe.shown)
           /\ ~(probe.verified.ok /\ probe.verified.val)


(***************************************************************************)
(* Paths.  A path text is a sequence of characters; PathBuf::join and the  *)
(* resolution of a path by the operating system are modelled on its        *)
(* components.  A tree holds the directories and the files of the machine  *)
(* by their resolved paths.                                                *)
(***************************************************************************)
\* the index of the first separator of text, or Len(text) + 1
FirstSlash(text) ==
    IF \E i \in 1..Len(text) : text[i] = "/"
    THEN CHOOSE i \in 1..Len(text) : text[i] = "/" /\ \A j \in 1..(i - 1) : text[j] # "/"
    ELSE Len(text) + 1

\* Path::components: the names between separators
RECURSIVE Components(_)
Components(text) ==
    IF text = <<>> THEN <<>>
    ELSE LET i == FirstSlash(text)
             head == SubSeq(text, 1, i - 1)
             rest == SubSeq(text, i + 1, Len(text))
         IN IF head = <<>> THEN Components(rest) ELSE <<head>> \o Components(rest)

\* PathBuf::join: an absolute text replaces the base
path_join(base, text) ==
    IF text # <<>> /\ text[1] = "/" THEN Components(text) ELSE base \o Components(text)

\* the resolution of a path from directory at: "." stays, ".." goes to the
\* parent, and every component but the last must be a directory
RECURSIVE walk(_, _, _)
walk(dirs, at, rest) ==
    IF rest = <<>> THEN Ok(at)
    ELSE IF Head(rest) = <<".">> THEN walk(dirs, at, Tail(rest))
    ELSE IF Head(rest) = <<".", ".">>
         THEN walk(dirs, IF at = <<>> THEN at ELSE SubSeq(at, 1, Len(at) - 1), Tail(rest))
    ELSE LET next == Append(at, Head(rest))
         IN IF Len(rest) = 1 THEN Ok(next)
            ELSE IF next \in dirs THEN walk(dirs, next, Tail(rest))
            ELSE Err("not found")

has_suffix(text, suffix) ==
    Len(text) >= Len(suffix)
    /\ SubSeq(text, Len(text) - Len(suffix) + 1, Len(text)) = suffix

\* a name as the storage functions look at it: the text and its extension
file_name(text) ==
    FileName(text, IF has_suffix(text, <<".", "c", "n", "v">>) THEN "cnv"
                   ELSE IF has_suffix(text, <<".", "m", "p", "4">>) THEN "mp4" ELSE "other")

\* read_dir of the directory at a resolved path
dir_at(tree, path) ==
    IF path \in DOMAIN tree.files THEN [state |-> "denied", entries |-> {}]
    ELSE IF path \notin tree.dirs THEN MissingDir
    ELSE [state |-> "present",
          entries |->
             {[name |-> file_name(p[Len(p)]), kind |-> "file",
               modified |-> tree.files[p].modified, content |-> tree.files[p].content] :
                 p \in {q \in DOMAIN tree.files : SubSeq(q, 1, Len(q) - 1) = path}}
             \cup {[name |-> file_name(p[Len(p)]), kind |-> "dir", modified |-> 0,
                    content |-> PlainContent(Bytes("", 0))] :
                     p \in {q \in tree.dirs : q # <<>> /\ SubSeq(q, 1, Len(q) - 1) = path}}]

\* fs::create_dir_all
create_dir_all(tree, path) ==
    [tree EXCEPT !.dirs = @ \cup {SubSeq(path, 1, n) : n \in 0..Len(path)}]

write_file(tree, path, content, modified) ==
    [tree EXCEPT !.files = [p \in DOMAIN @ \cup {path} |->
                               IF p = path THEN [modified |-> modified, content |-> content]
                               ELSE @[p]]]

remove_file(tree, path) ==
    [tree EXCEPT !.files = [p \in DOMAIN @ \ {path} |-> @[p]]]

StorageRoot == Components(<<"/", "r">>)
SegmentsText == <<"s", "e", "g", "m", "e", "n", "t", "s">>
SegmentsDir == path_join(StorageRoot, SegmentsText)

\* camera.rs sanitize: every character that is not an ASCII letter, a digit,
\* '-' or '_' becomes '_'
AlphaNumeric == {"a", "b", "c", "x", "z", "1", "2"}
sanitize(value) ==
    [i \in 1..Len(value) |->
        IF value[i] \in AlphaNumeric \cup {"-", "_"} THEN value[i] ELSE "_"]

\* record_loop: the directory the encoder writes the segments of a source to
out_dir(storage_root, source_id) ==
    path_join(path_join(storage_root, SegmentsText), sanitize(source_id))

\* list_segments: the directory it reads
segments_dir(storage_root, source_id) ==
    path_join(path_join(storage_root, SegmentsText), source_id)

\* read_segment: the path it reads
segment_path(storage_root, source_id, name) ==
    path_join(segments_dir(storage_root, source_id), name)

\* the path the operating system opens for path, when it is there
opened_path(tree, path) ==
    LET w == walk(tree.dirs, <<>>, path)
    IN IF w.ok /\ (w.val \in tree.dirs \/ w.val \in DOMAIN tree.files) THEN w ELSE Err("not found")

\* StorageManager::list_segments on the tree
list_segments_path(tree, storage_root, source_id, limit) ==
    LET w == walk(tree.dirs, <<>>, segments_dir(storage_root, source_id))
        dir == IF w.ok THEN dir_at(tree, w.val) ELSE MissingDir
    IN list_segments([state |-> "present", stray |-> FALSE, src |-> (source_id :> dir)],
                     source_id, limit)

\* StorageManager::read_segment on the tree
read_segment_path(tree, storage_root, source_id, name) ==
    LET w == walk(tree.dirs, <<>>, segment_path(storage_root, source_id, name))
        found == w.ok /\ w.val # <<>>
        dir == IF found THEN dir_at(tree, SubSeq(w.val, 1, Len(w.val) - 1)) ELSE MissingDir
        last == IF found THEN w.val[Len(w.val)] ELSE <<>>
    IN read_segment([state |-> "present", stray |-> FALSE, src |-> (source_id :> dir)],
                    source_id, FileName(last, file_name(name).ext))

(***************************************************************************)
(* PathSpec: one configured source records a segment, and a client asks    *)
(* for a listing or a segment with a sourceId and a name of its choice.    *)
(***************************************************************************)
\* the machine: the segments of source c1, a directory beside the segments
\* directory and the configuration file
BaseTree ==
    [dirs |-> {<<>>, StorageRoot, SegmentsDir, Append(SegmentsDir, <<"c", "1">>),
               Append(StorageRoot, <<"x">>)},
     files |->
        (<<<<"r">>, <<"s", "e", "g", "m", "e", "n", "t", "s">>, <<"c", "1">>, <<"a", ".", "m", "p", "4">>>> :>
            [modified |-> 20, content |-> PlainContent(Bytes("seg", 1))])
        @@ (<<<<"r">>, <<"s", "e", "g", "m", "e", "n", "t", "s">>, <<"c", "1">>, <<"b", ".", "c", "n", "v">>>> :>
            [modified |-> 10, content |-> BlobContent(StorageKey, Bytes("old", 2), TRUE)])
        @@ (<<<<"r">>, <<"x">>, <<"p", ".", "m", "p", "4">>>> :>
            [modified |-> 5, content |-> PlainContent(Bytes("other", 1))])
        @@ (<<<<"r">>, <<"c", "o", "n", "f", "i", "g", ".", "j", "s", "o", "n">>>> :>
            [modified |-> 1, content |-> PlainContent(Bytes("config", 1))])]

\* the source ids a former upsert_source stored
StoredIds ==
    {into_camera(SourceUpsert(id, <<"n">>, TRUE, 10)).val.source_id :
        id \in {<<"c", "1">>, <<" ", "c", "2", " ">>, <<"c", ".", "1">>, <<"c", "-", "1">>, <<"c", "_", "1">>, <<"c", " ", "1">>}}

\* the sourceId and the name of a request
ClientIds ==
    {<<"c", "1">>, <<"z", "z">>, <<".">>, <<".", ".">>, <<".", ".", "/", "x">>, <<"/", "r", "/", "x">>, <<"c", "1", "/", ".", ".", "/", ".", ".", "/", "x">>, <<"z", "z", "/", ".", ".", "/", "c", "1">>, <<"/", "r">>}

ClientNames ==
    {<<"a", ".", "m", "p", "4">>, <<"b", ".", "c", "n", "v">>, <<"n", ".", "m", "p", "4">>, <<"g", "o", "n", "e", ".", "m", "p", "4">>, <<".", ".", "/", ".", ".", "/", "c", "o", "n", "f", "i", "g", ".", "j", "s", "o", "n">>, <<"/", "r", "/", "c", "o", "n", "f", "i", "g", ".", "j", "s", "o", "n">>, <<".", ".", "/", ".", ".", "/", "x", "/", "p", ".", "m", "p", "4">>}

RecordedName == <<"n", ".", "m", "p", "4">>

PathProbes ==
    {[fn |-> "segments", tree |-> BaseTree, cam |-> id, recorded |-> FALSE,
      asked |-> FALSE] : id \in StoredIds}

PathInit == ProbeInit(PathProbes)

\* record_loop creates the directory of the source and the encoder writes a
\* segment into it
record_segment ==
    /\ probe.fn = "segments" /\ ~probe.recorded /\ ~probe.asked
    /\ LET dir == out_dir(StorageRoot, probe.cam)
           made == create_dir_all(probe.tree, dir)
       IN probe' = [probe EXCEPT !.recorded = TRUE,
                                 !.tree = write_file(made, Append(dir, RecordedName),
                                                     PlainContent(Bytes("new", 1)), 30)]
    /\ UNCHANGED conn_vars

\* ClientCommand::ListSegments
list_segments_request ==
    /\ probe.fn = "segments" /\ ~probe.asked
    /\ \E id \in ClientIds \cup {probe.cam} :
        probe' = [probe EXCEPT !.asked = TRUE] @@
                 [req |-> [cmd |-> "list_segments", sourceId |-> id, limit |-> 30],
                  opened |-> opened_path(probe.tree, segments_dir(StorageRoot, id)),
                  result |-> list_segments_path(probe.tree, StorageRoot, id, 30)]
    /\ UNCHANGED conn_vars

\* ClientCommand::GetSegment
get_segment_request ==
    /\ probe.fn = "segments" /\ ~probe.asked
    /\ \E id \in ClientIds \cup {probe.cam}, name \in ClientNames :
        probe' = [probe EXCEPT !.asked = TRUE] @@
                 [req |-> [cmd |-> "get_segment", sourceId |-> id, name |-> name],
                  opened |-> opened_path(probe.tree, segment_path(StorageRoot, id, name)),
                  result |-> read_segment_path(probe.tree, StorageRoot, id, name)]
    /\ UNCHANGED conn_vars

PathNext == record_segment \/ list_segments_request \/ get_segment_request

PathSpec == PathInit /\ [][PathNext]_vars

PathAsked == probe.fn = "segments" /\ probe.asked

IsPrefix(p, q) == Len(p) <= Len(q) /\ SubSeq(q, 1, Len(p)) = p

(***************************************************************************)
(* C34: get_segment and list_segments only read inside                     *)
(* <storage root>/segments/<sourceId>: no sourceId or name supplied by a   *)
(* client makes the server return the content or the listing of a file or  *)
(* directory outside the segments directory.                               *)
(***************************************************************************)
C34_ReadsInsideSegments ==
    PathAsked /\ probe.result.ok /\ probe.result.val # <<>> /\ probe.opened.ok
        => IsPrefix(SegmentsDir, probe.opened.val)


(***************************************************************************)
(* C39: the directory the recorder writes a source's segments to is the    *)
(* directory list_segments and read_segment read for that source's         *)
(* sourceId, for every sourceId that upsert_source accepts: segments       *)
(* recorded for a configured source are listed and fetched under its       *)
(* sourceId.                                                               *)
(***************************************************************************)
C39_RecordedIsListedAndFetched ==
    PathAsked /\ probe.recorded /\ probe.req.sourceId = probe.cam
        => /\ out_dir(StorageRoot, probe.cam) = segments_dir(StorageRoot, probe.cam)
           /\ probe.req.cmd = "list_segments" =>
                 /\ probe.result.ok
                 /\ \E i \in 1..Len(probe.result.val) :
                       probe.result.val[i].name = file_name(RecordedName)
           /\ probe.req.cmd = "get_segment" /\ probe.req.name = RecordedName =>
                 probe.result = Ok(Bytes("new", 1))


(***************************************************************************)
(* SweepSpec: the encoder of source c1 writes a segment piece by piece,    *)
(* the encryption sweep (start_encryptor, encrypt_pass) turns plain        *)
(* segments into encrypted ones file by file, and a client lists the       *)
(* segments of c1 and then fetches one of the names it was given.          *)
(***************************************************************************)
\* the pieces the encoder writes into one segment
SegmentBytes == 2

SweepCam == <<"c", "1">>
OldSegment == Append(out_dir(StorageRoot, SweepCam), <<"a", ".", "m", "p", "4">>)
NewSegment == Append(out_dir(StorageRoot, SweepCam), RecordedName)

\* Path::with_extension("cnv") of a path that ends in .mp4
with_extension_cnv(path) ==
    LET name == path[Len(path)]
    IN [path EXCEPT ![Len(path)] = SubSeq(name, 1, Len(name) - 3) \o <<"c", "n", "v">>]

path_exists(tree, path) == path \in tree.dirs \/ path \in DOMAIN tree.files

\* what the encoder wrote into each segment so far, and whether it closed it
RecordedAtStart ==
    (OldSegment :> [closed |-> TRUE, data |-> Bytes("seg", 1)])
    @@ (NewSegment :> [closed |-> FALSE, data |-> Bytes("new", 0)])

SweepProbes ==
    {[fn |-> "sweep", tree |-> BaseTree, encoder |-> "starting",
      recorded |-> RecordedAtStart, sweep |-> [stage |-> "idle"],
      removed |-> {}, listed |-> <<>>, asked |-> 0]}

SweepInit == ProbeInit(SweepProbes)

\* the encoder opens its next segment file
encoder_open ==
    /\ probe.fn = "sweep" /\ probe.encoder = "starting"
    /\ probe' = [probe EXCEPT !.encoder = "writing",
                              !.tree = write_file(@, NewSegment,
                                                  PlainContent(Bytes("new", 0)), 30)]
    /\ UNCHANGED conn_vars

\* the encoder writes one more piece; a file the sweep removed meanwhile is
\* not created again
encoder_write ==
    /\ probe.fn = "sweep" /\ probe.encoder = "writing"
    /\ probe.recorded[NewSegment].data.len < SegmentBytes
    /\ LET data == Bytes("new", probe.recorded[NewSegment].data.len + 1)
       IN probe' = [probe EXCEPT !.recorded[NewSegment].data = data,
                                 !.tree = IF NewSegment \in DOMAIN @.files
                                          THEN write_file(@, NewSegment, PlainContent(data), 30)
                                          ELSE @]
    /\ UNCHANGED conn_vars

\* the encoder closes the segment at the end of segment_time
encoder_close ==
    /\ probe.fn = "sweep" /\ probe.encoder = "writing"
    /\ probe.recorded[NewSegment].data.len = SegmentBytes
    /\ probe' = [probe EXCEPT !.encoder = "closed", !.recorded[NewSegment].closed = TRUE]
    /\ UNCHANGED conn_vars

\* encrypt_pass reaches a plain segment that has no encrypted form and is
\* not empty, and reads it
sweep_read(path) ==
    /\ probe.fn = "sweep" /\ probe.sweep.stage = "idle"
    /\ path \in DOMAIN probe.tree.files
    /\ IsPrefix(SegmentsDir, path)
    /\ file_name(path[Len(path)]).ext = "mp4"
    /\ ~path_exists(probe.tree, with_extension_cnv(path))
    /\ probe.tree.files[path].content.len > 0
    /\ probe' = [probe EXCEPT !.sweep = [stage |-> "read", path |-> path,
                                         raw |-> probe.tree.files[path].content.data]]
    /\ UNCHANGED conn_vars

\* encrypt_pass writes the encrypted form, later than every file before it
sweep_write ==
    /\ probe.fn = "sweep" /\ probe.sweep.stage = "read"
    /\ probe' = [probe EXCEPT !.sweep.stage = "written",
                              !.tree = write_file(@, with_extension_cnv(probe.sweep.path),
                                                  BlobContent(StorageKey, probe.sweep.raw, TRUE),
                                                  40 + Cardinality(probe.removed))]
    /\ UNCHANGED conn_vars

\* encrypt_pass removes the plain file
sweep_remove ==
    /\ probe.fn = "sweep" /\ probe.sweep.stage = "written"
    /\ probe' = [probe EXCEPT !.sweep = [stage |-> "idle"],
                              !.removed = @ \cup {probe.sweep.path},
                              !.tree = remove_file(@, probe.sweep.path)]
    /\ UNCHANGED conn_vars

\* ClientCommand::ListSegments for the source
sweep_list ==
    /\ probe.fn = "sweep" /\ probe.asked = 0
    /\ LET res == list_segments_path(probe.tree, StorageRoot, SweepCam, 30)
       IN probe' = [probe EXCEPT !.asked = 1,
                                 !.listed = IF res.ok THEN res.val ELSE <<>>]
    /\ UNCHANGED conn_vars

\* ClientCommand::GetSegment for a name of the listing
sweep_get ==
    /\ probe.fn = "sweep" /\ probe.asked = 1
    /\ \E i \in 1..Len(probe.listed) :
        probe' = [probe EXCEPT !.asked = 2] @@
                 [req |-> [cmd |-> "get_segment", sourceId |-> SweepCam,
                           name |-> probe.listed[i].name.stem],
                  result |-> read_segment_path(probe.tree, StorageRoot, SweepCam,
                                               probe.listed[i].name.stem)]
    /\ UNCHANGED conn_vars

SweepNext ==
    \/ encoder_open
    \/ encoder_write
    \/ encoder_close
    \/ \E path \in {OldSegment, NewSegment} : sweep_read(path)
    \/ sweep_write
    \/ sweep_remove
    \/ sweep_list
    \/ sweep_get

SweepSpec == SweepInit /\ [][SweepNext]_vars

(***************************************************************************)
(* C35: a segment name returned by list_segments can be fetched by a       *)
(* following get_segment with the same sourceId and name, also when an     *)
(* encryption pass of the background sweep runs between the two commands.  *)
(***************************************************************************)
C35_ListedCanBeFetched ==
    probe.fn = "sweep" /\ probe.asked = 2 => probe.result.ok

(***************************************************************************)
(* C36: the encryption sweep replaces a plain segment by its encrypted     *)
(* form only once the recorder has finished writing it: for every segment, *)
(* the encrypted file decrypts to the complete content the recorder wrote, *)
(* and the plain file is removed only after the encrypted file holding     *)
(* that content was written.                                               *)
(***************************************************************************)
EncryptedForm(path) == probe.tree.files[with_extension_cnv(path)].content

C36_SweepAfterRecorderFinished ==
    probe.fn = "sweep" =>
        \A path \in {OldSegment, NewSegment} :
            /\ with_extension_cnv(path) \in DOMAIN probe.tree.files =>
                  /\ probe.recorded[path].closed
                  /\ decrypt_blob(StorageKey, EncryptedForm(path))
                        = Ok(probe.recorded[path].data)
            /\ path \in probe.removed =>
                  with_extension_cnv(path) \in DOMAIN probe.tree.files


(***************************************************************************)
(* discover_onvif (camera.rs) as the discover_onvif command runs it.       *)
(* DiscoverSpec follows the probe second by second: the socket is bound    *)
(* and the probe sent, then each recv_from waits under its own timeout of  *)
(* the deadline until a datagram arrives, the receive fails or the timeout *)
(* fires.  Time passes and the runtime schedules the task (weak fairness); *)
(* whether and when datagrams arrive is up to the network.                 *)
(***************************************************************************)
\* camera::discover_onvif(3)
DISCOVER_TIMEOUT_SECS == 3

\* the seconds the model counts since the probe was sent (it stops there)
MaxElapsed == 6

\* Duration::from_secs(timeout_secs.max(1))
deadline(timeout_secs) == IF timeout_secs > 1 THEN timeout_secs ELSE 1

\* the datagrams that may arrive: a sender and the XAddrs in its payload
Responders == {"10.0.0.2", "10.0.0.3"}
Endpoints == {"http://a", "http://b"}
Datagrams == [from : Responders, xaddrs : SUBSET Endpoints]

\* seen.entry(xaddr).or_insert_with(|| from): the first sender is kept
or_insert_all(seen, d) ==
    [e \in DOMAIN seen \cup d.xaddrs |-> IF e \in DOMAIN seen THEN seen[e] ELSE d.from]

DiscoverProbes ==
    {[fn |-> "discover_onvif", stage |-> "command", waited |-> 0, elapsed |-> 0,
      seen |-> <<>>, reply |-> <<>>]}

DiscoverInit == ProbeInit(DiscoverProbes)

\* UdpSocket::bind and send_to; an error is the Err of handle_command
discover_send ==
    /\ probe.fn = "discover_onvif" /\ probe.stage = "command"
    /\ \E res \in Results([cmd |-> "discover_onvif"]) :
        probe' = IF res.ok THEN [probe EXCEPT !.stage = "recv"]
                 ELSE [probe EXCEPT !.stage = "replied",
                                    !.reply = <<error_value(res.err)>>]
    /\ UNCHANGED conn_vars

\* a second passes while recv_from waits
second_passes ==
    /\ probe.fn = "discover_onvif" /\ probe.stage = "recv"
    /\ probe.waited < deadline(DISCOVER_TIMEOUT_SECS)
    /\ probe' = [probe EXCEPT !.waited = @ + 1,
                              !.elapsed = IF @ < MaxElapsed THEN @ + 1 ELSE @]
    /\ UNCHANGED conn_vars

\* recv_from returns a datagram before the timeout; the loop goes round and
\* waits again under a new timeout
datagram_arrives ==
    /\ probe.fn = "discover_onvif" /\ probe.stage = "recv"
    /\ probe.waited < deadline(DISCOVER_TIMEOUT_SECS)
    /\ \E d \in Datagrams :
        probe' = [probe EXCEPT !.seen = or_insert_all(@, d), !.waited = 0]
    /\ UNCHANGED conn_vars

discover_reply(seen) ==
    <<[ok |-> TRUE, cmd |-> "discover_onvif",
       cameras |-> {[endpoint |-> e, from |-> seen[e]] : e \in DOMAIN seen}]>>

\* recv_from fails: break
recv_fails ==
    /\ probe.fn = "discover_onvif" /\ probe.stage = "recv"
    /\ probe.waited < deadline(DISCOVER_TIMEOUT_SECS)
    /\ probe' = [probe EXCEPT !.stage = "replied", !.reply = discover_reply(probe.seen)]
    /\ UNCHANGED conn_vars

\* the timeout of the current recv_from fires: the loop ends
recv_timeout ==
    /\ probe.fn = "discover_onvif" /\ probe.stage = "recv"
    /\ probe.waited = deadline(DISCOVER_TIMEOUT_SECS)
    /\ probe' = [probe EXCEPT !.stage = "replied", !.reply = discover_reply(probe.seen)]
    /\ UNCHANGED conn_vars

DiscoverNext ==
    \/ discover_send
    \/ second_passes
    \/ datagram_arrives
    \/ recv_fails
    \/ recv_timeout

DiscoverSpec ==
    /\ DiscoverInit /\ [][DiscoverNext]_vars
    /\ WF_vars(discover_send) /\ WF_vars(second_passes) /\ WF_vars(recv_timeout)

(***************************************************************************)
(* C37: a discover_onvif command always ends with a reply: the discovery   *)
(* probe returns once its timeout has passed, also when responses keep     *)
(* arriving, so the connection that issued it eventually goes back to      *)
(* reading its next frame.                                                 *)
(***************************************************************************)
C37_DiscoverAlwaysReplies ==
    (probe.fn = "discover_onvif" /\ probe.stage = "command")
        ~> (probe.fn = "discover_onvif" /\ probe.stage = "replied")


(***************************************************************************)
(* The swarm UDP runtime (swarm.rs).  SwarmSpec runs two nodes, each with  *)
(* its peer list, its peer table and its receive loop, the announce loop   *)
(* that sends Hello and Record datagrams to the peer list, and a third     *)
(* host that may send either node any datagram.  The datagrams in flight   *)
(* are a set (those addressed to the third host leave the model at once);  *)
(* `last` is the datagram the last step handled and what the handler sent. *)
(* Instant::now() is read as the number of datagrams received so far.      *)
(***************************************************************************)
PROTOCOL_VERSION == 1

\* the datagrams the model lets the announce loops and the third host send
\* in one run, and the datagrams it lets wait in the sockets' buffers
MaxDatagrams == 3
MaxInFlight == 2

SwarmNodes == {"A", "B"}
SwarmAddrs == SwarmNodes \cup {"X"}

\* serde_json::from_slice::<UdpMessage>: "garbage" is a datagram it
\* rejects; event is what nostr::verify_event returns for a Record
UdpMessages ==
    [kind : {"hello", "ack", "record", "garbage"}, v : {PROTOCOL_VERSION, 2},
     from : SwarmAddrs, to : SwarmAddrs, record_type : {"", "device", "zone_presence"},
     event : {"", "valid", "invalid", "error"}]

udp_message(kind, from, to, record_type, event) ==
    [kind |-> kind, v |-> PROTOCOL_VERSION, from |-> from, to |-> to,
     record_type |-> record_type, event |-> event]

\* what the third host may send to node A
Injected ==
    {m \in UdpMessages :
        /\ m.from = "X" /\ m.to = "A"
        /\ (m.kind = "record") = (m.event # "")
        /\ (m.kind = "record") = (m.record_type = "device")
        /\ m.v # PROTOCOL_VERSION => m.kind # "garbage" /\ m.event \in {"", "valid"}}

\* the datagrams of dgrams that reach a socket of the model
delivered(dgrams) == {dgrams[i] : i \in {j \in DOMAIN dgrams : dgrams[j].to \in SwarmNodes}}

\* add_peer appending without looking at the list
add_peer_push(peers, addr) == Append(peers, addr)

\* add_peer
add_peer(peers, addr) ==
    IF \E i \in DOMAIN peers : peers[i] = addr THEN peers ELSE Append(peers, addr)

\* guard.insert(from, PeerState { last_seen: Instant::now(), confirmed: true })
table_insert(table, from, instant) ==
    [a \in DOMAIN table \cup {from} |->
        IF a = from THEN [last_seen |-> instant, confirmed |-> TRUE] ELSE table[a]]

\* if let Some(entry) = guard.get_mut(&from) { entry.last_seen = Instant::now() }
table_touch(table, from, instant) ==
    IF from \in DOMAIN table
    THEN [table EXCEPT ![from] = [@ EXCEPT !.last_seen = instant]]
    ELSE table

\* broadcast_json: one datagram to every address of the peer list
broadcast_json(from, peers, kind, record_type, event) ==
    [i \in DOMAIN peers |-> udp_message(kind, from, peers[i], record_type, event)]

\* start: resolve_peers gives a sorted list without repeats, the table is empty
SwarmProbes ==
    {[fn |-> "swarm", peers |-> [n \in SwarmNodes |-> IF n = "A" THEN <<"B">> ELSE <<>>],
      table |-> [n \in SwarmNodes |-> <<>>], running |-> [n \in SwarmNodes |-> TRUE],
      net |-> {}, sent |-> 0, received |-> 0,
      last |-> [op |-> "start", node |-> "A", msg |-> udp_message("garbage", "X", "A", "", ""),
                sent |-> <<>>]]}

SwarmInit == ProbeInit(SwarmProbes)

\* announce_loop, hello_tick
hello_tick(n) ==
    /\ probe.fn = "swarm"
    /\ probe.peers[n] # <<>>
    /\ probe.sent + Len(probe.peers[n]) <= MaxDatagrams
    /\ Cardinality(probe.net) + Len(probe.peers[n]) <= MaxInFlight
    /\ LET dgrams == broadcast_json(n, probe.peers[n], "hello", "", "")
       IN probe' = [probe EXCEPT !.net = @ \cup delivered(dgrams), !.sent = @ + Len(dgrams),
                        !.last = [op |-> "hello_tick", node |-> n, msg |-> dgrams[1], sent |-> dgrams]]
    /\ UNCHANGED conn_vars

\* announce_loop, announce_tick with one zone: the device record, then the
\* zone presence, each signed with the node's key
announce_tick(n) ==
    /\ probe.fn = "swarm"
    /\ probe.peers[n] # <<>>
    /\ probe.sent + 2 * Len(probe.peers[n]) <= MaxDatagrams
    /\ Cardinality(probe.net) + 2 * Len(probe.peers[n]) <= MaxInFlight
    /\ LET dgrams == broadcast_json(n, probe.peers[n], "record", "device", "valid")
                  \o broadcast_json(n, probe.peers[n], "record", "zone_presence", "valid")
       IN probe' = [probe EXCEPT !.net = @ \cup delivered(dgrams), !.sent = @ + Len(dgrams),
                        !.last = [op |-> "announce_tick", node |-> n, msg |-> dgrams[1], sent |-> dgrams]]
    /\ UNCHANGED conn_vars

\* a datagram of the third host
inject ==
    /\ probe.fn = "swarm"
    /\ probe.sent < MaxDatagrams
    /\ Cardinality(probe.net) < MaxInFlight
    /\ \E m \in Injected :
        probe' = [probe EXCEPT !.net = @ \cup {m}, !.sent = @ + 1,
                      !.last = [op |-> "inject", node |-> m.to, msg |-> m, sent |-> <<m>>]]
    /\ UNCHANGED conn_vars

\* one round of recv_loop at node n for the datagram m
recv(n, m) ==
    /\ probe.fn = "swarm" /\ probe.running[n]
    /\ m \in probe.net /\ m.to = n
    /\ LET instant == probe.received + 1
           accepted == m.kind # "garbage" /\ m.v = PROTOCOL_VERSION
           ack == udp_message("ack", n, m.from, "", "")
           dgrams == IF accepted /\ m.kind = "hello" THEN <<ack>> ELSE <<>>
           table == IF accepted /\ m.kind \in {"hello", "ack"}
                        THEN table_insert(probe.table[n], m.from, instant)
                    ELSE IF accepted /\ m.kind = "record" /\ m.event = "valid"
                        THEN table_touch(probe.table[n], m.from, instant)
                    ELSE probe.table[n]
           peers == IF accepted /\ m.kind \in {"hello", "ack"}
                        THEN add_peer(probe.peers[n], m.from)
                    ELSE probe.peers[n]
       IN probe' = [probe EXCEPT !.net = (@ \ {m}) \cup delivered(dgrams),
                        !.received = instant,
                        !.table[n] = table, !.peers[n] = peers,
                        !.last = [op |-> "recv", node |-> n, msg |-> m, sent |-> dgrams]]
    /\ UNCHANGED conn_vars

\* socket.recv_from fails: recv_loop returns the error and the task ends
recv_error(n) ==
    /\ probe.fn = "swarm" /\ probe.running[n]
    /\ probe' = [probe EXCEPT !.running[n] = FALSE,
                     !.last = [op |-> "recv_error", node |-> n, msg |-> probe.last.msg,
                               sent |-> <<>>]]
    /\ UNCHANGED conn_vars

SwarmNext ==
    \/ \E n \in SwarmNodes : hello_tick(n)
    \/ \E n \in SwarmNodes : announce_tick(n)
    \/ inject
    \/ \E n \in SwarmNodes : \E m \in probe.net : recv(n, m)
    \/ \E n \in SwarmNodes : recv_error(n)

SwarmSpec == SwarmInit /\ [][SwarmNext]_vars


\* the list holds no address twice
NoRepeats(peers) == \A i, j \in DOMAIN peers : peers[i] = peers[j] => i = j

(***************************************************************************)
(* C38: in the swarm receive loop, a Hello with the supported protocol     *)
(* version makes the node record the sender as a confirmed peer, add it    *)
(* once to the peer list (the list never holds an address twice) and send  *)
(* exactly one Ack back; an Ack or a Record never makes the node send      *)
(* anything, so a Hello/Ack exchange between two nodes ends after one Ack; *)
(* a message with another protocol version, and a Record whose signature   *)
(* does not verify, leave the peer table unchanged.                        *)
(***************************************************************************)
C38_RecvLoop ==
    [][probe.fn = "swarm" =>
        /\ \A node \in SwarmNodes : NoRepeats(probe'.peers[node])
        /\ probe'.received = probe.received + 1 =>
            LET n == probe'.last.node
                m == probe'.last.msg
                sends == probe'.last.sent
            IN /\ probe'.last.op = "recv"
               /\ m.kind = "hello" /\ m.v = PROTOCOL_VERSION =>
                    /\ m.from \in DOMAIN probe'.table[n]
                    /\ probe'.table[n][m.from].confirmed
                    /\ Cardinality({i \in DOMAIN probe'.peers[n] :
                                        probe'.peers[n][i] = m.from}) = 1
                    /\ sends = <<udp_message("ack", n, m.from, "", "")>>
                    /\ probe'.net = (probe.net \ {m}) \cup delivered(sends)
               /\ m.kind \in {"ack", "record"} =>
                    /\ sends = <<>>
                    /\ probe'.net = probe.net \ {m}
               /\ m.v # PROTOCOL_VERSION \/ (m.kind = "record" /\ m.event # "valid") =>
                    probe'.table = probe.table]_vars

\* node A has taken a Hello of the third host, and has just handled the Ack
\* node B sent for A's Hello: B was on A's list already, nothing is in flight
C38_Witness ==
    /\ probe.fn = "swarm"
    /\ probe.last.op = "recv" /\ probe.last.node = "A"
    /\ probe.last.msg = udp_message("ack", "B", "A", "", "")
    /\ probe.last.sent = <<>> /\ probe.net = {}
    /\ "X" \in DOMAIN probe.table["A"] /\ "B" \in DOMAIN probe.table["A"]
    /\ "A" \in DOMAIN probe.table["B"]
    /\ probe.peers["A"] = <<"B", "X">> /\ probe.peers["B"] = <<"A">>


(***************************************************************************)
(* The capture worker of one source (camera.rs): upsert_camera creates the *)
(* runtime state and spawns record_loop, record_loop starts the encoder,   *)
(* waits for it, backs off and starts it again, remove_camera aborts the   *)
(* task.  RecorderSpec follows one source id: `worker` is the position of  *)
(* the task spawned last, `restart_attempt` its local counter, `state` the *)
(* SourceRuntimeState of the entry made last, `generation` the number of   *)
(* upserts so far and `last` what the last step did.  The runtime runs a   *)
(* task that can run and a sleep ends when its seconds have passed (weak   *)
(* fairness); when the encoder exits, if ever, is up to the encoder.       *)
(***************************************************************************)
\* the restarts and the upserts the model follows
MaxRestarts == 7
MaxUpserts == 3

\* restart_attempt.saturating_add(1); the counter starts at 0 and a restart
\* takes at least two seconds, so it stays far below u64::MAX
next_attempt_same(restart_attempt) == restart_attempt

next_attempt(restart_attempt) == restart_attempt + 1

\* update_state
update_state(state, status, restart_attempt, last_error, backoff) ==
    [state EXCEPT !.state = status, !.restart_attempt = restart_attempt,
                  !.backoff_secs = IF backoff.some THEN backoff.val ELSE @,
                  !.last_error = last_error]

Some(v) == [some |-> TRUE, val |-> v]
None == [some |-> FALSE]

\* Command::status: the encoder ran and exited with a code (or by a signal),
\* or it could not be launched
ExitCodes == {"Some(0)", "Some(1)", "None"}
LaunchErrors == {"NotFound", "PermissionDenied"}

RecorderProbes ==
    {[fn |-> "recorder", entry |-> FALSE, worker |-> "none", restart_attempt |-> 0,
      remaining |-> 0, generation |-> 0, last |-> "new",
      state |-> [state |-> "stopped", restart_attempt |-> 0, backoff_secs |-> 0,
                 last_error |-> ""]]}

RecorderInit == ProbeInit(RecorderProbes)

\* RecorderManager::upsert_camera: remove_camera, then the new state, the new
\* task and the new entry
recorder_upsert(enabled) ==
    /\ probe.fn = "recorder"
    /\ probe.generation < MaxUpserts
    /\ probe' = [probe EXCEPT
            !.entry = TRUE,
            !.worker = IF enabled THEN "create_dir_all" ELSE "none",
            !.restart_attempt = 0, !.remaining = 0,
            !.generation = @ + 1,
            !.last = IF probe.entry THEN "replaced" ELSE "upserted",
            !.state = [state |-> IF enabled THEN "starting" ELSE "stopped",
                       restart_attempt |-> 0, backoff_secs |-> 0, last_error |-> ""]]
    /\ UNCHANGED conn_vars

\* RecorderManager::remove_camera of a source that has an entry
recorder_remove ==
    /\ probe.fn = "recorder"
    /\ probe.entry
    /\ probe' = [probe EXCEPT
            !.entry = FALSE,
            !.worker = IF @ \in {"none", "failed"} THEN @ ELSE "aborted",
            !.remaining = 0,
            !.last = "removed",
            !.state = update_state(@, "stopped", 0, "", None)]
    /\ UNCHANGED conn_vars

\* record_loop: create_dir_all(&out_dir).await?; on Err the task records failed
create_out_dir ==
    /\ probe.fn = "recorder" /\ probe.worker = "create_dir_all"
    /\ \E ok \in BOOLEAN :
        probe' = IF ok
                 THEN [probe EXCEPT !.worker = "loop", !.last = "create_dir_all"]
                 ELSE [probe EXCEPT !.worker = "failed", !.last = "create_dir_all failed",
                           !.state = update_state(@, "failed", 0, "create_dir_all", None)]
    /\ UNCHANGED conn_vars

\* record_loop: the top of the loop
record_starting ==
    /\ probe.fn = "recorder" /\ probe.worker = "loop"
    /\ probe' = [probe EXCEPT !.worker = "command", !.last = "starting",
                     !.state = update_state(@, "starting", probe.restart_attempt, "", Some(0))]
    /\ UNCHANGED conn_vars

\* record_loop: the command is built, running is recorded, cmd.status() awaited
record_running ==
    /\ probe.fn = "recorder" /\ probe.worker = "command"
    /\ probe' = [probe EXCEPT !.worker = "status", !.last = "running",
                     !.state = update_state(@, "running", probe.restart_attempt, "", Some(0))]
    /\ UNCHANGED conn_vars

\* both arms that restart: count, record backoff, sleep
restart(message) ==
    LET attempt == next_attempt(probe.restart_attempt)
        backoff == backoff_secs(attempt)
    IN [probe EXCEPT !.worker = "sleep", !.restart_attempt = attempt,
                     !.remaining = backoff, !.last = message,
                     !.state = update_state(@, "backoff", attempt, message, Some(backoff))]

\* record_loop: Ok(status)
encoder_exits ==
    /\ probe.fn = "recorder" /\ probe.worker = "status"
    /\ probe.restart_attempt < MaxRestarts
    /\ \E code \in ExitCodes : probe' = restart("ffmpeg exited with code " \o code)
    /\ UNCHANGED conn_vars

\* record_loop: Err(err)
launch_fails ==
    /\ probe.fn = "recorder" /\ probe.worker = "status"
    /\ probe.restart_attempt < MaxRestarts
    /\ \E kind \in LaunchErrors :
        probe' = IF kind = "NotFound"
                 THEN [probe EXCEPT !.worker = "failed", !.last = "ffmpeg not found",
                           !.state = update_state(@, "failed", 0,
                                                  "ffmpeg not found in PATH", None)]
                 ELSE restart("failed to launch ffmpeg")
    /\ UNCHANGED conn_vars

\* sleep(Duration::from_secs(backoff)): a second of it passes
sleep_second ==
    /\ probe.fn = "recorder" /\ probe.worker = "sleep"
    /\ probe.remaining > 0
    /\ probe' = [probe EXCEPT !.remaining = @ - 1, !.last = "sleep"]
    /\ UNCHANGED conn_vars

\* the sleep is over: round the loop
sleep_ends ==
    /\ probe.fn = "recorder" /\ probe.worker = "sleep"
    /\ probe.remaining = 0
    /\ probe' = [probe EXCEPT !.worker = "loop", !.last = "slept"]
    /\ UNCHANGED conn_vars

RecorderNext ==
    \/ \E enabled \in BOOLEAN : recorder_upsert(enabled)
    \/ recorder_remove
    \/ create_out_dir
    \/ record_starting
    \/ record_running
    \/ encoder_exits
    \/ launch_fails
    \/ sleep_second
    \/ sleep_ends

RecorderSpec ==
    /\ RecorderInit /\ [][RecorderNext]_vars
    /\ WF_vars(create_out_dir) /\ WF_vars(record_starting) /\ WF_vars(record_running)
    /\ WF_vars(sleep_second) /\ WF_vars(sleep_ends)

\* the worker is in its loop
Retrying == probe.worker \in {"loop", "command", "status", "sleep"}

(***************************************************************************)
(* C40: for an enabled source, each time the encoder process exits or      *)
(* fails to launch, the worker records state backoff with restart_attempt  *)
(* increased by exactly one and backoff_secs = backoff_secs of it, and     *)
(* then eventually returns to starting and running; the worker stops       *)
(* retrying only when the encoder binary is not found or its output        *)
(* directory cannot be created (state failed, which it never leaves) or    *)
(* when the source is removed or replaced.                                 *)
(***************************************************************************)
C40_RestartWithBackoff ==
    /\ [][probe.fn = "recorder" =>
            \* the encoder exited or failed to launch, and the task goes on
            /\ probe.worker = "status" /\ probe'.worker = "sleep" =>
                /\ probe.state.state = "running"
                /\ probe'.state.state = "backoff"
                /\ probe'.state.restart_attempt = probe.state.restart_attempt + 1
                /\ probe'.state.backoff_secs = backoff_secs(probe'.state.restart_attempt)
                /\ probe'.remaining = probe'.state.backoff_secs
            \* the only ways out of the status await
            /\ probe.worker = "status" /\ probe'.worker # "status" =>
                \/ probe'.worker = "sleep"
                \/ probe'.worker = "failed" /\ probe'.last = "ffmpeg not found"
                \/ probe'.last \in {"removed", "replaced"}
            \* the only ways to stop retrying
            /\ (Retrying \/ probe.worker = "create_dir_all") /\ ~Retrying' =>
                \/ /\ probe'.worker = "failed" /\ probe'.state.state = "failed"
                   /\ probe'.last \in {"ffmpeg not found", "create_dir_all failed"}
                   /\ probe.worker = "create_dir_all" <=> probe'.last = "create_dir_all failed"
                \/ probe'.last \in {"removed", "replaced"}
            \* failed is final for the worker
            /\ probe.worker = "failed" /\ probe'.generation = probe.generation =>
                /\ probe'.worker = "failed"
                /\ probe'.entry => probe'.state = probe.state /\ probe.state.state = "failed"
       ]_vars
    /\ \A g \in 1..MaxUpserts :
        (probe.fn = "recorder" /\ probe.worker = "sleep" /\ probe.generation = g)
            ~> \/ /\ probe.worker = "status" /\ probe.state.state = "running"
                  /\ probe.generation = g
               \/ probe.generation # g
               \/ ~probe.entry

\* the encoder of the second worker of the source has exited six times: the
\* worker sleeps the capped 30 seconds before it starts the encoder again
C40_Witness ==
    /\ probe.fn = "recorder" /\ probe.entry /\ probe.generation = 2
    /\ probe.worker = "sleep" /\ probe.remaining = 30
    /\ probe.state = [state |-> "backoff", restart_attempt |-> 6, backoff_secs |-> 30,
                      last_error |-> "ffmpeg exited with code Some(1)"]

=============================================================================
